---- MODULE Spec2Model ----
(***************************************************************************)
(* Model of the tool-provider clients and managers of spendcast-benchmark  *)
(* (src/src/mcp.py, mcp_client.py, mcp_subprocess_client.py,               *)
(* mcp_subprocess_manager.py, mcp_server_manager.py) and of the directive  *)
(* parser of the agent (src/src/intelligent_agent.py).                     *)
(*                                                                         *)
(* The MCP library (stdio_client, ClientSession) and the provider process  *)
(* are the environment: every call into them has a nondeterministic        *)
(* outcome, chosen with \E in the action that models the calling code.     *)
(***************************************************************************)
EXTENDS Integers, Sequences, FiniteSets, TLC

\* ------------------------------------------------------------------ bounds
NumServers == 2
MaxOps == 3
\* WebServer.max_debug_logs, scaled down from the 1000 of __init__ so that the
\* log fills up within MaxEvents events.
max_debug_logs == 2
\* Debug events emitted in one run.
MaxEvents == 4

\* Providers in registration order (dict insertion order of configs).
Servers == 1..NumServers

\* The tool names a caller may ask for; the last one is owned by no provider.
ToolNames == {"ta", "tb", "nonexistent_tool"}

\* The descriptors provider s reports on list-tools.
ProviderTools(s) == IF s % 2 = 1 THEN <<"ta", "tb">> ELSE <<"tb">>

\* -------------------------------------------------------------- the values
\* Python values that cross the client/manager boundary.
NoneVal == [kind |-> "none", text |-> <<>>, items |-> <<>>]
StrVal(t) == [kind |-> "str", text |-> t, items |-> <<>>]
ListVal(xs) == [kind |-> "list", text |-> <<>>, items |-> xs]

\* Python truthiness of a value: None, "" and [] are falsy.
Truthy(v) ==
    CASE v.kind = "none" -> FALSE
      [] v.kind = "str" -> v.text # <<>>
      [] v.kind = "list" -> v.items # <<>>
      [] OTHER -> TRUE

\* What the provider answers to a request on the session.
CallOutcomes == {"raise", "text", "emptytext", "nocontent"}
SpawnOutcomes == {"raise", "badshape", "ok"}

\* The text a provider s returns for tool t.
ResultText(s, t) == <<"result", s, t>>
ExecutedText == <<"Tool executed successfully">>

VARIABLES
    variant,            \* which class the run drives
    registered,         \* number of configured providers (a prefix of Servers)
    clients,            \* per provider slot: the client object's fields
    popen,              \* per provider name: the state of the Popen child last spawned for it
    orphans,            \* live children whose last reference was overwritten
    op,                 \* the manager operation in progress, and its position
    last,               \* the outcome of the last finished operation
    opCount,            \* operations started so far
    connectResult,      \* per slot: what the last connect on it returned
    terminal,           \* per slot: the client was disposed or failed to connect
    usedAfterTerminal,  \* a connect/list/call went through a terminal client
    doubleFree,         \* a session or context was released a second time
    hist,               \* the calls made on the client so far, oldest first
    processes,          \* MCPSubprocessManager.processes: per name, "Popen" or "None"
    mcp_clients,        \* MCPSubprocessManager.mcp_clients: the names with a client
    servers,            \* MCPServerManager.servers: the names with a client
    available_tools,    \* MCPServerManager.available_tools
    response,           \* the model reply handed to _process_tool_calls
    pending,            \* the directives found in the reply and not yet executed
    tool_results,       \* the result lines collected so far
    mgr_calls,          \* the calls made on mcp_manager.call_tool, oldest first
    agent_ret,          \* what _process_tool_calls returned
    apc,                \* where the agent's coroutine stands
    llm_calls,          \* the calls made on llm_client.generate_response, oldest first
    catalogs,           \* what each get_available_resources / get_available_tools call
                        \* returned: non-empty or not
    needed_resources,   \* the result of determine_needed_resources
    needed_tools,       \* the result of determine_needed_tools
    request_ret,        \* what process_user_request returned
    debug_logs,         \* WebServer.debug_logs
    debug_events,       \* every log_entry add_debug_log has built, oldest first
    field,              \* the shared MCPOnDemandClient of the overlapping operations:
                        \* whose session / stdio context its fields hold
    tasks,              \* per overlapping operation: its position and what it opened
    executor,           \* the thread-backed client: its one worker thread, the call it
                        \* runs, the call waiting for it, and its caller
    messages,           \* Conversation.messages
    history             \* the last get_conversation_history call: its argument, the
                        \* stored messages before and after it, and what it returned

vars == <<variant, registered, clients, popen, orphans, op, last, opCount, connectResult,
          terminal, usedAfterTerminal, doubleFree, hist, processes, mcp_clients, servers,
          available_tools, response, pending, tool_results, mgr_calls, agent_ret, apc,
          llm_calls, catalogs, needed_resources, needed_tools, request_ret, debug_logs,
          debug_events, field, tasks, executor, messages, history>>

managerVars == <<registered, clients, popen, orphans, op, last, opCount, connectResult,
                 terminal, usedAfterTerminal, doubleFree, hist, processes, mcp_clients,
                 servers, available_tools>>

agentVars == <<response, pending, tool_results, mgr_calls, agent_ret, apc, llm_calls,
               catalogs, needed_resources, needed_tools, request_ret>>

requestVars == <<llm_calls, needed_resources, needed_tools, request_ret>>

webVars == <<debug_logs, debug_events>>

overlapVars == <<field, tasks>>

threadVars == <<executor>>

conversationVars == <<messages, history>>

\* ------------------------------------------------------------- the clients
\* A client object after __init__: no session, no stdio context, no process.
\*   session: "None" | "Uninit" (ClientSession built, handshake not done) |
\*            "Ready" | "connected" (the marker string)
\*   stdio:   "None" | "Ctx"   (_stdio_context)
\*   proc:    "none" | "alive"  (the child of the held stdio context)
\*   server_process: "None" | "Popen"
\*   closes, exits: release calls made on the held session / context
\*   tools:   self.tools, the listing cached by the last list_tools that got one
NewClient ==
    [session |-> "None", stdio |-> "None", proc |-> "none", server_process |-> "None",
     closes |-> 0, exits |-> 0, tools |-> <<>>]

\* A client that completed the handshake and whose provider is alive.
ReadyClient == [NewClient EXCEPT !.session = "Ready", !.stdio = "Ctx", !.proc = "alive"]

\* Whether a request on the client's session can be answered at all: the
\* handshake was completed and the transport's child is alive.
SessionUsable(c) == c.session = "Ready" /\ c.proc = "alive"

\* MCPOnDemandClient.connect_to_server and
\* MCPSubprocessClient.connect_with_stdio_client: the client after the call, the
\* boolean returned, and whether a live child lost its last reference.
ConnectToServer(c, spawn, init) ==
    LET leaked == c.stdio = "Ctx" /\ c.proc = "alive"
        c1 == [c EXCEPT !.stdio = "Ctx", !.exits = 0,
                        !.proc = IF spawn = "raise" THEN "none" ELSE "alive"]
    IN  IF spawn # "ok"
        THEN [client |-> c1, ok |-> FALSE, leaked |-> leaked]
        ELSE [client |-> [c1 EXCEPT !.session = IF init = "ok" THEN "Ready" ELSE "Uninit",
                                    !.closes = 0],
              ok |-> init = "ok", leaked |-> leaked]

\* MCPClient.connect: the stdio context is entered and left inside the call
\* (async with ... return True), and a failure closes and drops the session.
MCPClientConnect(c, spawn, init) ==
    IF spawn = "ok" /\ init = "ok"
    THEN [client |-> [c EXCEPT !.session = "Ready", !.closes = 0], ok |-> TRUE,
          twice |-> FALSE]
    ELSE [client |-> [c EXCEPT !.session = "None", !.closes = 0], ok |-> FALSE,
          twice |-> spawn # "ok" /\ c.session # "None" /\ c.closes > 0]

\* MCPOnDemandClient.list_tools / MCPClient.list_tools: the list the client returns.
\* sent: a request went to the session; client: the client after the call.
ClientListTools(c, s, out) ==
    IF c.session = "None"
    THEN [raised |-> FALSE, value |-> ListVal(<<>>), sent |-> FALSE, client |-> c]
    ELSE IF out = "ok" /\ SessionUsable(c)
    THEN [raised |-> FALSE, value |-> ListVal(ProviderTools(s)), sent |-> TRUE,
          client |-> [c EXCEPT !.tools = ProviderTools(s)]]
    ELSE IF out = "empty" /\ SessionUsable(c)
    THEN [raised |-> FALSE, value |-> ListVal(<<>>), sent |-> TRUE,
          client |-> [c EXCEPT !.tools = <<>>]]
    ELSE [raised |-> FALSE, value |-> ListVal(<<>>), sent |-> TRUE, client |-> c]

\* call_tool without the "if not self.session" test: the request is attempted on
\* whatever self.session holds, and the failure is caught.
ClientCallToolUnguarded(c, s, t, out) ==
    IF out = "raise" \/ ~SessionUsable(c)
    THEN [raised |-> FALSE, value |-> NoneVal, sent |-> TRUE]
    ELSE IF out = "text"
    THEN [raised |-> FALSE, value |-> StrVal(ResultText(s, t)), sent |-> TRUE]
    ELSE IF out = "emptytext" THEN [raised |-> FALSE, value |-> StrVal(<<>>), sent |-> TRUE]
    ELSE [raised |-> FALSE, value |-> StrVal(ExecutedText), sent |-> TRUE]

\* MCPOnDemandClient.call_tool / MCPClient.call_tool: a text or None.
ClientCallTool(c, s, t, out) ==
    IF c.session = "None" THEN [raised |-> FALSE, value |-> NoneVal, sent |-> FALSE]
    ELSE IF out = "raise" \/ ~SessionUsable(c)
    THEN [raised |-> FALSE, value |-> NoneVal, sent |-> TRUE]
    ELSE IF out = "text"
    THEN [raised |-> FALSE, value |-> StrVal(ResultText(s, t)), sent |-> TRUE]
    ELSE IF out = "emptytext" THEN [raised |-> FALSE, value |-> StrVal(<<>>), sent |-> TRUE]
    ELSE [raised |-> FALSE, value |-> StrVal(ExecutedText), sent |-> TRUE]

\* The static descriptors MCPSubprocessClient.list_tools returns.
MockTools == <<"spendcast_query", "spendcast_get_schema">>

\* MCPSubprocessClient.list_tools.
SubprocessListTools(c) ==
    IF c.session = "None" THEN [raised |-> FALSE, value |-> ListVal(<<>>)]
    ELSE [raised |-> FALSE, value |-> ListVal(MockTools)]

\* MCPSubprocessClient.call_tool: a canned text for every tool name.
SubprocessCallTool(c, t) ==
    IF c.session = "None" THEN [raised |-> FALSE, value |-> NoneVal]
    ELSE [raised |-> FALSE, value |-> StrVal(<<"Mock", t>>)]

\* The release calls of dispose/disconnect: aclose on a held session, __aexit__ on
\* a held stdio context (which ends the child it spawned).
Release(c) ==
    [c EXCEPT !.closes = IF c.session # "None" THEN @ + 1 ELSE @,
              !.exits = IF c.stdio # "None" THEN @ + 1 ELSE @,
              !.proc = IF c.stdio = "Ctx" THEN "none" ELSE @]

\* Whether the release calls hit an object that was already released.
ReleasesTwice(c) ==
    \/ c.session # "None" /\ c.closes > 0
    \/ c.stdio # "None" /\ c.exits > 0

\* The fields dispose sets to None; a dropped object takes its counters with it.
ClearRefs(c) ==
    [c EXCEPT !.session = "None", !.stdio = "None", !.closes = 0, !.exits = 0]

\* Dispose with "self._stdio_context = None" inside the try: an __aexit__ that
\* raises leaves the context in the field.
DisposeKeepsContextOnError(c, acl, aex) ==
    [client |-> IF aex = "raise" /\ c.stdio # "None"
                THEN [ClearRefs(Release(c)) EXCEPT !.stdio = c.stdio, !.exits = c.exits + 1]
                ELSE ClearRefs(Release(c)),
     raised |-> FALSE, twice |-> ReleasesTwice(c)]

\* Dispose with "self.session = None" inside the try: an aclose that raises
\* leaves the session in the field.
DisposeKeepsSessionOnError(c, acl, aex) ==
    [client |-> IF acl = "raise" /\ c.session # "None"
                THEN [ClearRefs(Release(c)) EXCEPT !.session = c.session,
                                                   !.closes = c.closes + 1]
                ELSE ClearRefs(Release(c)),
     raised |-> FALSE, twice |-> ReleasesTwice(c)]

\* MCPOnDemandClient.dispose and MCPSubprocessClient.disconnect: both release
\* calls sit in try/except, so an exception in aclose or __aexit__ (the marker
\* string has no aclose at all) is swallowed and the field is cleared anyway.
Dispose(c, acl, aex) ==
    [client |-> ClearRefs(Release(c)), raised |-> FALSE, twice |-> ReleasesTwice(c)]

\* MCPClient.disconnect: closes the session, and terminates the process in
\* server_process when one is held.
MCPClientDisconnect(c, acl, term) ==
    [client |-> [ClearRefs(Release(c)) EXCEPT !.server_process = "None"],
     raised |-> FALSE, twice |-> ReleasesTwice(c),
     terminated |-> c.server_process # "None"]

\* ------------------------------------------------- the operation records
NoRet == [set |-> FALSE, value |-> NoneVal]
IdleOp == [kind |-> "idle", idx |-> 0, pc |-> "-", tool |-> "-", acc |-> <<>>,
           ret |-> NoRet, log |-> <<>>]
NoLast == [kind |-> "none", server |-> 0, tool |-> "-", value |-> NoneVal,
           raised |-> FALSE, log |-> <<>>, sent |-> FALSE]

\* An operation returns: the manager is idle again and the outcome is recorded.
Finish(kind, tool, value, raised, log) ==
    /\ op' = IdleOp
    /\ last' = [NoLast EXCEPT !.kind = kind, !.tool = tool, !.value = value,
                              !.raised = raised, !.log = log]

\* A new operation may start.
CanStart(v) == variant = v /\ op.kind = "idle" /\ opCount < MaxOps

Outcomes == {"ok", "raise"}

\* ------------------------------------------------- the on-demand manager
\* MCPOnDemandManager.get_available_tools, the tagging loop: the manager reads
\* the attribute "tools" of what the client returned (absent on a list).
TagTools(resp, s) ==
    LET tools == IF resp.kind = "result" THEN resp.items ELSE <<>>
    IN  [i \in 1..Len(tools) |-> [name |-> tools[i], server |-> s]]

\* MCPOnDemandManager.call_tool, the extraction of the text: the manager reads
\* the attribute "content" of what the client returned (absent on a str).
ContentText(result) ==
    IF result.kind = "none" THEN NoneVal
    ELSE LET contents == IF result.kind = "result" THEN result.items ELSE <<>>
         IN  IF contents # <<>> THEN StrVal(contents[1]) ELSE NoneVal

\* get_available_tools is called.
ODStartGetAvailableTools ==
    /\ CanStart("ondemand")
    /\ opCount' = opCount + 1
    /\ IF registered = 0
       THEN Finish("get_available_tools", "-", ListVal(<<>>), FALSE, <<>>)
       ELSE /\ op' = [IdleOp EXCEPT !.kind = "get_available_tools", !.idx = 1, !.pc = "connect"]
            /\ last' = NoLast
    /\ UNCHANGED <<hist, variant, registered, clients, popen, orphans, connectResult, terminal,
                   usedAfterTerminal, doubleFree, processes, mcp_clients, servers,
                   available_tools>>

\* call_tool(tool, arguments) is called.
ODStartCallTool ==
    /\ CanStart("ondemand")
    /\ opCount' = opCount + 1
    /\ \E t \in ToolNames :
        IF registered = 0
        THEN Finish("call_tool", t, NoneVal, FALSE, <<>>)
        ELSE /\ op' = [IdleOp EXCEPT !.kind = "call_tool", !.idx = 1, !.pc = "connect",
                                     !.tool = t]
             /\ last' = NoLast
    /\ UNCHANGED <<hist, variant, registered, clients, popen, orphans, connectResult, terminal,
                   usedAfterTerminal, doubleFree, processes, mcp_clients, servers,
                   available_tools>>

\* await client.connect_to_server(cfg_payload); the boolean is not looked at.
ODConnect ==
    /\ variant = "ondemand" /\ op.pc = "connect"
    /\ \E spawn \in SpawnOutcomes, init \in Outcomes :
        LET r == ConnectToServer(clients[op.idx], spawn, init)
        IN  /\ clients' = [clients EXCEPT ![op.idx] = r.client]
            /\ orphans' = orphans + (IF r.leaked THEN 1 ELSE 0)
            /\ connectResult' = [connectResult EXCEPT ![op.idx] = IF r.ok THEN "ok" ELSE "failed"]
            /\ usedAfterTerminal' = (usedAfterTerminal \/ terminal[op.idx])
            /\ terminal' = [terminal EXCEPT ![op.idx] = @ \/ ~r.ok]
    /\ op' = [op EXCEPT !.pc = "use"]
    /\ UNCHANGED <<hist, variant, registered, popen, last, opCount, doubleFree, processes,
                   mcp_clients, servers, available_tools>>

\* tools_response = await client.list_tools(), then the tagging loop; an
\* exception out of either is caught by the loop body's except.
ODListTools ==
    /\ variant = "ondemand" /\ op.pc = "use" /\ op.kind = "get_available_tools"
    /\ \E out \in Outcomes :
        LET c == clients[op.idx]
            r == ClientListTools(c, op.idx, out)
            provided == IF out = "ok" /\ SessionUsable(c) THEN ProviderTools(op.idx) ELSE <<>>
        IN  /\ op' = [op EXCEPT !.pc = "dispose",
                             !.acc = IF r.raised THEN @ ELSE @ \o TagTools(r.value, op.idx),
                             !.log = Append(@, [server |-> op.idx, provided |-> provided,
                                                conn |-> connectResult[op.idx],
                                                sess |-> out, client |-> r.value])]
            /\ clients' = [clients EXCEPT ![op.idx] = r.client]
    /\ usedAfterTerminal' = (usedAfterTerminal \/ terminal[op.idx])
    /\ UNCHANGED <<hist, variant, registered, popen, orphans, last, opCount,
                   connectResult, terminal, doubleFree, processes, mcp_clients, servers,
                   available_tools>>

\* The call step with "return None" in the except clause: a provider that fails
\* ends the whole operation.
ODCallToolAbortsOnFailure ==
    /\ variant = "ondemand" /\ op.pc = "use" /\ op.kind = "call_tool"
    /\ \E out \in CallOutcomes :
        LET c == clients[op.idx]
            r == ClientCallTool(c, op.idx, op.tool, out)
            text == IF r.raised THEN NoneVal ELSE ContentText(r.value)
        IN  op' = [op EXCEPT !.pc = "dispose",
                             !.ret = IF Truthy(text) \/ out = "raise"
                                     THEN [set |-> TRUE, value |-> text] ELSE @,
                             !.log = Append(@, [server |-> op.idx, provided |-> <<>>,
                                                conn |-> connectResult[op.idx],
                                                sess |-> out, client |-> r.value])]
    /\ usedAfterTerminal' = (usedAfterTerminal \/ terminal[op.idx])
    /\ UNCHANGED <<hist, variant, registered, clients, popen, orphans, last, opCount,
                   connectResult, terminal, doubleFree, processes, mcp_clients, servers,
                   available_tools>>

\* result = await client.call_tool(tool_name, arguments), then the extraction; an
\* exception out of either is caught by the loop body's except.
ODCallTool ==
    /\ variant = "ondemand" /\ op.pc = "use" /\ op.kind = "call_tool"
    /\ \E out \in CallOutcomes :
        LET c == clients[op.idx]
            r == ClientCallTool(c, op.idx, op.tool, out)
            text == IF r.raised THEN NoneVal ELSE ContentText(r.value)
        IN  op' = [op EXCEPT !.pc = "dispose",
                             !.ret = IF Truthy(text) THEN [set |-> TRUE, value |-> text] ELSE @,
                             !.log = Append(@, [server |-> op.idx, provided |-> <<>>,
                                                conn |-> connectResult[op.idx],
                                                sess |-> out, client |-> r.value])]
    /\ usedAfterTerminal' = (usedAfterTerminal \/ terminal[op.idx])
    /\ UNCHANGED <<hist, variant, registered, clients, popen, orphans, last, opCount,
                   connectResult, terminal, doubleFree, processes, mcp_clients, servers,
                   available_tools>>

\* finally: await client.dispose() inside try/except; then the early return, the
\* next provider, or the end of the loop.
ODDispose ==
    /\ variant = "ondemand" /\ op.pc = "dispose"
    /\ \E acl \in Outcomes, aex \in Outcomes :
        LET d == Dispose(clients[op.idx], acl, aex)
        IN  /\ clients' = [clients EXCEPT ![op.idx] = d.client]
            /\ doubleFree' = (doubleFree \/ d.twice)
    /\ terminal' = [terminal EXCEPT ![op.idx] = TRUE]
    /\ connectResult' = [connectResult EXCEPT ![op.idx] = "-"]
    /\ IF op.ret.set
       THEN Finish(op.kind, op.tool, op.ret.value, FALSE, op.log)
       ELSE IF op.idx < registered
       THEN /\ op' = [op EXCEPT !.idx = @ + 1, !.pc = "connect"]
            /\ UNCHANGED last
       ELSE Finish(op.kind, op.tool,
                   IF op.kind = "call_tool" THEN NoneVal ELSE ListVal(op.acc), FALSE, op.log)
    /\ UNCHANGED <<hist, variant, registered, popen, orphans, opCount, usedAfterTerminal,
                   processes, mcp_clients, servers, available_tools>>

\* MCPOnDemandManager.shutdown: dispose every client, logging what raises.
ODShutdown ==
    /\ CanStart("ondemand")
    /\ opCount' = opCount + 1
    /\ \E acl \in Outcomes, aex \in Outcomes :
        /\ clients' = [s \in Servers |-> IF s <= registered
                                          THEN Dispose(clients[s], acl, aex).client
                                          ELSE clients[s]]
        /\ doubleFree' = (doubleFree \/ \E s \in 1..registered :
                                            Dispose(clients[s], acl, aex).twice)
    /\ terminal' = [s \in Servers |-> terminal[s] \/ s <= registered]
    /\ connectResult' = [s \in Servers |-> IF s <= registered THEN "-" ELSE connectResult[s]]
    /\ last' = [NoLast EXCEPT !.kind = "shutdown"]
    /\ UNCHANGED <<hist, variant, registered, popen, orphans, op, usedAfterTerminal, processes,
                   mcp_clients, servers, available_tools>>

\* The provider never answers: the handshake in connect_to_server, or the
\* request of list_tools / call_tool on a session. None of these awaits has a
\* timeout, so the manager operation stays suspended in it.
ODProviderSilent ==
    /\ variant = "ondemand"
    /\ \/ /\ op.pc = "connect"
          /\ LET r == ConnectToServer(clients[op.idx], "ok", "raise")
             IN  /\ clients' = [clients EXCEPT ![op.idx] = r.client]
                 /\ orphans' = orphans + (IF r.leaked THEN 1 ELSE 0)
          /\ usedAfterTerminal' = (usedAfterTerminal \/ terminal[op.idx])
       \/ /\ op.pc = "use" /\ clients[op.idx].session # "None"
             /\ clients[op.idx].proc = "alive"
          /\ UNCHANGED <<clients, orphans, usedAfterTerminal>>
    /\ op' = [op EXCEPT !.pc = "suspended"]
    /\ UNCHANGED <<hist, variant, registered, popen, last, opCount, connectResult, terminal,
                   doubleFree, processes, mcp_clients, servers, available_tools>>

OnDemandNext ==
    \/ ODProviderSilent
    \/ ODStartGetAvailableTools
    \/ ODStartCallTool
    \/ ODConnect
    \/ ODListTools
    \/ ODCallTool
    \/ ODDispose
    \/ ODShutdown

\* --------------------------------------------- the client API, called directly
\* A caller drives one client object (slot 1) through its public methods in any
\* order: MCPOnDemandClient ("odclient") or MCPClient ("mcpclient").
ClientVariants == {"odclient", "mcpclient"}

\* MCPClient.connect() on a client whose server_config was never set (the
\* caller registered no provider): "if not self.server_config: return False".
HConnectNoConfig ==
    /\ variant = "mcpclient" /\ registered = 0
    /\ op.kind = "idle" /\ opCount < MaxOps
    /\ opCount' = opCount + 1
    /\ connectResult' = [connectResult EXCEPT ![1] = "failed"]
    /\ terminal' = [terminal EXCEPT ![1] = TRUE]
    /\ hist' = Append(hist, "connect_failed")
    /\ last' = [NoLast EXCEPT !.kind = "connect", !.server = 1, !.log = <<"noconfig">>]
    /\ usedAfterTerminal' = (usedAfterTerminal \/ terminal[1])
    /\ UNCHANGED <<variant, registered, clients, popen, orphans, op, doubleFree, processes,
                   mcp_clients, servers, available_tools>>

\* connect_to_server(config) / connect() with a server configuration.
HConnect ==
    /\ variant \in ClientVariants /\ op.kind = "idle" /\ opCount < MaxOps
    /\ variant = "mcpclient" => registered > 0
    /\ opCount' = opCount + 1
    /\ \E spawn \in SpawnOutcomes, init \in Outcomes :
        LET r == IF variant = "odclient"
                 THEN ConnectToServer(clients[1], spawn, init)
                 ELSE [leaked |-> FALSE] @@ MCPClientConnect(clients[1], spawn, init)
        IN  /\ clients' = [clients EXCEPT ![1] = r.client]
            /\ orphans' = orphans + (IF r.leaked THEN 1 ELSE 0)
            /\ connectResult' = [connectResult EXCEPT ![1] = IF r.ok THEN "ok" ELSE "failed"]
            /\ terminal' = [terminal EXCEPT ![1] = @ \/ ~r.ok]
            /\ doubleFree' = (doubleFree \/ (variant = "mcpclient" /\ r.twice))
            /\ hist' = Append(hist, IF r.ok THEN "connect_ok" ELSE "connect_failed")
            /\ last' = [NoLast EXCEPT !.kind = "connect", !.server = 1,
                                      !.value = IF r.ok THEN StrVal(<<"True">>) ELSE NoneVal]
    /\ usedAfterTerminal' = (usedAfterTerminal \/ terminal[1])
    /\ UNCHANGED <<variant, registered, popen, op, processes, mcp_clients, servers,
                   available_tools>>

\* What session.list_tools() does: the provider's descriptors, an empty list, or
\* an exception.
ListOutcomes == Outcomes \cup {"empty"}

\* list_tools().
HListTools ==
    /\ variant \in ClientVariants /\ op.kind = "idle" /\ opCount < MaxOps
    /\ opCount' = opCount + 1
    /\ \E out \in ListOutcomes :
        LET r == ClientListTools(clients[1], 1, out)
        IN  /\ hist' = Append(hist, "list_tools")
            /\ clients' = [clients EXCEPT ![1] = r.client]
            /\ last' = [NoLast EXCEPT !.kind = "list_tools", !.server = 1, !.value = r.value,
                                   !.raised = r.raised, !.log = <<out>>, !.sent = r.sent]
    /\ usedAfterTerminal' = (usedAfterTerminal \/ terminal[1])
    /\ UNCHANGED <<variant, registered, popen, orphans, op, connectResult, terminal,
                   doubleFree, processes, mcp_clients, servers, available_tools>>

\* call_tool(tool_name, arguments).
HCallTool ==
    /\ variant \in ClientVariants /\ op.kind = "idle" /\ opCount < MaxOps
    /\ opCount' = opCount + 1
    /\ \E out \in CallOutcomes, t \in ToolNames :
        LET r == ClientCallTool(clients[1], 1, t, out)
        IN  /\ hist' = Append(hist, "call_tool")
            /\ last' = [NoLast EXCEPT !.kind = "call_tool", !.server = 1, !.tool = t,
                                   !.value = r.value, !.raised = r.raised, !.log = <<out>>,
                                   !.sent = r.sent]
    /\ usedAfterTerminal' = (usedAfterTerminal \/ terminal[1])
    /\ UNCHANGED <<variant, registered, clients, popen, orphans, op, connectResult, terminal,
                   doubleFree, processes, mcp_clients, servers, available_tools>>

\* dispose() / disconnect().
HDispose ==
    /\ variant \in ClientVariants /\ op.kind = "idle" /\ opCount < MaxOps
    /\ opCount' = opCount + 1
    /\ \E acl \in Outcomes, aex \in Outcomes :
        LET d == IF variant = "odclient"
                 THEN Dispose(clients[1], acl, aex)
                 ELSE MCPClientDisconnect(clients[1], acl, aex)
        IN  /\ clients' = [clients EXCEPT ![1] = d.client]
            /\ doubleFree' = (doubleFree \/ d.twice)
            /\ hist' = Append(hist, "dispose")
            /\ last' = [NoLast EXCEPT !.kind = "dispose", !.server = 1, !.raised = d.raised]
    /\ terminal' = [terminal EXCEPT ![1] = TRUE]
    /\ connectResult' = [connectResult EXCEPT ![1] = "-"]
    /\ UNCHANGED <<variant, registered, popen, orphans, op, usedAfterTerminal, processes,
                   mcp_clients, servers, available_tools>>

\* connect_to_server(config) on a provider that is spawned and never answers the
\* handshake: "await self.session.initialize()" has no timeout, the call does not
\* return and the caller stays suspended in it.
HConnectNeverReturns ==
    /\ variant = "odclient" /\ op.kind = "idle" /\ opCount < MaxOps
    /\ opCount' = opCount + 1
    /\ LET r == ConnectToServer(clients[1], "ok", "raise")
       IN  /\ clients' = [clients EXCEPT ![1] = r.client]
           /\ orphans' = orphans + (IF r.leaked THEN 1 ELSE 0)
    /\ op' = [IdleOp EXCEPT !.kind = "connect_to_server", !.idx = 1, !.pc = "suspended"]
    /\ hist' = Append(hist, "connect_pending")
    /\ last' = NoLast
    /\ usedAfterTerminal' = (usedAfterTerminal \/ terminal[1])
    /\ UNCHANGED <<variant, registered, popen, connectResult, terminal, doubleFree,
                   processes, mcp_clients, servers, available_tools>>

ClientNext ==
    \/ HConnectNeverReturns
    \/ HConnectNoConfig
    \/ HConnect
    \/ HListTools
    \/ HCallTool
    \/ HDispose

\* ------------------------------------------------- the thread-backed client
\* The names the module mcp_on_demand_client binds before its first statement
\* that is not an import: asyncio, mcp, the typing names, the concurrent.futures
\* names, MCPServerConfig and MCPSubprocessClient.
ImportedNames ==
    {"asyncio", "mcp", "Any", "Dict", "List", "Optional", "ThreadPoolExecutor",
     "FutureTimeoutError", "MCPServerConfig", "MCPSubprocessClient"}

\* A caller reaches MCPOnDemandClient.call_tool through the import of its
\* module; the module body runs first, and "logger = logging.getLogger(__name__)"
\* looks up a name that no import of the module binds, so the import raises
\* NameError and the caller never gets a client to call.
ImportOnDemandClient ==
    /\ variant = "threadclient" /\ op.kind = "idle" /\ last.kind = "none"
    /\ "logging" \notin ImportedNames
    /\ last' = [NoLast EXCEPT !.kind = "call_tool", !.raised = TRUE, !.log = <<"NameError">>]
    /\ hist' = Append(hist, "import_raised")
    /\ UNCHANGED <<variant, registered, clients, popen, orphans, op, opCount, connectResult,
                   terminal, usedAfterTerminal, doubleFree, processes, mcp_clients, servers,
                   available_tools>>

\* ------------------------------------------- the persistent subprocess manager
\* Dict operations on an insertion-ordered dict kept as the sequence of its keys.
RECURSIVE Without(_, _)
Without(seq, k) ==
    IF seq = <<>> THEN <<>>
    ELSE IF Head(seq) = k THEN Without(Tail(seq), k)
    ELSE <<Head(seq)>> \o Without(Tail(seq), k)

Keys(seq) == {seq[i] : i \in 1..Len(seq)}
Put(seq, k) == IF k \in Keys(seq) THEN seq ELSE Append(seq, k)

StartOutcomes == {"spawnfail", "diedearly", "diedlate", "ok"}

\* MCPSubprocessManager.start_server(server_name, config): the manager's fields
\* afterwards and the boolean returned.
StartServer(st, s, o) ==
    IF o = "spawnfail" THEN [st EXCEPT !.ok = FALSE]
    ELSE LET spawned == [st EXCEPT !.orphans = @ + (IF st.popen[s] = "alive" THEN 1 ELSE 0),
                                   !.processes[s] = "Popen", !.popen[s] = "alive"]
         IN  IF o = "diedearly" \/ o = "diedlate"
             THEN [spawned EXCEPT !.popen[s] = "dead", !.processes[s] = "None", !.ok = FALSE]
             ELSE [spawned EXCEPT !.mcp_clients = Put(@, s),
                                  !.clients[s] = [NewClient EXCEPT !.session = "connected",
                                                                   !.server_process = "Popen"],
                                  !.ok = TRUE]

\* MCPSubprocessManager.stop_server(server_name): disconnect and drop the client,
\* drop the process reference; everything inside one try/except.
StopServer(st, s) ==
    [st EXCEPT !.clients[s] = IF s \in Keys(st.mcp_clients) THEN NewClient ELSE @,
               !.mcp_clients = Without(@, s),
               !.processes[s] = "None",
               !.ok = TRUE]

RECURSIVE StopAll(_, _)
\* MCPSubprocessManager.stop_all_servers over list(self.mcp_clients.keys()).
StopAll(st, names) ==
    IF names = <<>> THEN st ELSE StopAll(StopServer(st, Head(names)), Tail(names))

ManagerState ==
    [clients |-> clients, popen |-> popen, orphans |-> orphans, processes |-> processes,
     mcp_clients |-> mcp_clients, ok |-> TRUE]

SetManagerState(st) ==
    /\ clients' = st.clients
    /\ popen' = st.popen
    /\ orphans' = st.orphans
    /\ processes' = st.processes
    /\ mcp_clients' = st.mcp_clients

SPStartServer ==
    /\ CanStart("subprocess")
    /\ opCount' = opCount + 1
    /\ \E s \in 1..registered, o \in StartOutcomes :
        LET st == StartServer(ManagerState, s, o)
        IN  /\ SetManagerState(st)
            /\ connectResult' = [connectResult EXCEPT ![s] = IF st.ok THEN "ok" ELSE "failed"]
            /\ last' = [NoLast EXCEPT !.kind = "start_server", !.server = s,
                                      !.value = IF st.ok THEN StrVal(<<"True">>) ELSE NoneVal]
    /\ UNCHANGED <<hist, variant, registered, op, terminal, usedAfterTerminal, doubleFree, servers,
                   available_tools>>

RECURSIVE StartEach(_, _, _, _)
\* The loop of MCPSubprocessManager.start_all_servers over the configured names
\* n..last_n, name s starting with outcome f[s]; ok is "success_count > 0".
StartEach(st, n, last_n, f) ==
    IF n > last_n THEN [st EXCEPT !.ok = FALSE]
    ELSE LET r == StartServer(st, n, f[n])
             rest == StartEach(r, n + 1, last_n, f)
         IN  [rest EXCEPT !.ok = r.ok \/ rest.ok]

\* start_all_servers(): with no configured provider it returns False at once.
SPStartAllServers ==
    /\ CanStart("subprocess")
    /\ opCount' = opCount + 1
    /\ \E f \in [1..registered -> StartOutcomes] :
        LET st == StartEach(ManagerState, 1, registered, f)
        IN  /\ SetManagerState(st)
            /\ connectResult' = [s \in Servers |->
                                    IF s > registered THEN connectResult[s]
                                    ELSE IF f[s] = "ok" THEN "ok" ELSE "failed"]
            /\ last' = [NoLast EXCEPT !.kind = "start_all_servers",
                                      !.value = IF st.ok THEN StrVal(<<"True">>) ELSE NoneVal]
    /\ UNCHANGED <<hist, variant, registered, op, terminal, usedAfterTerminal, doubleFree, servers,
                   available_tools>>

SPStopServer ==
    /\ CanStart("subprocess")
    /\ opCount' = opCount + 1
    /\ \E s \in 1..registered :
        /\ SetManagerState(StopServer(ManagerState, s))
        /\ connectResult' = [connectResult EXCEPT ![s] = "-"]
        /\ last' = [NoLast EXCEPT !.kind = "stop_server", !.server = s]
    /\ UNCHANGED <<hist, variant, registered, op, terminal, usedAfterTerminal, doubleFree, servers,
                   available_tools>>

SPStopAllServers ==
    /\ CanStart("subprocess")
    /\ opCount' = opCount + 1
    /\ SetManagerState(StopAll(ManagerState, mcp_clients))
    /\ connectResult' = [s \in Servers |-> IF s \in Keys(mcp_clients) THEN "-"
                                            ELSE connectResult[s]]
    /\ last' = [NoLast EXCEPT !.kind = "stop_all_servers"]
    /\ UNCHANGED <<hist, variant, registered, op, terminal, usedAfterTerminal, doubleFree, servers,
                   available_tools>>

\* The provider process exits on its own.
SPProcessExits ==
    /\ variant = "subprocess"
    /\ \E s \in Servers :
        /\ popen[s] = "alive"
        /\ popen' = [popen EXCEPT ![s] = "dead"]
    /\ UNCHANGED <<hist, variant, registered, clients, orphans, op, last, opCount, connectResult,
                   terminal, usedAfterTerminal, doubleFree, processes, mcp_clients, servers,
                   available_tools>>

RECURSIVE FirstResult(_, _, _)
\* The loop of MCPSubprocessManager.call_tool: the first truthy client result;
\* an exception in one client's call is logged and the loop goes on.
FirstResult(names, cl, t) ==
    IF names = <<>> THEN NoneVal
    ELSE LET r == SubprocessCallTool(cl[Head(names)], t)
         IN  IF ~r.raised /\ Truthy(r.value) THEN r.value
             ELSE FirstResult(Tail(names), cl, t)

RECURSIVE SubprocessCatalog(_, _)
\* The loop of MCPSubprocessManager.get_available_tools.
SubprocessCatalog(names, cl) ==
    IF names = <<>> THEN <<>>
    ELSE LET r == SubprocessListTools(cl[Head(names)])
             mine == IF r.raised THEN <<>>
                     ELSE [i \in 1..Len(r.value.items) |->
                              [name |-> r.value.items[i], server |-> Head(names)]]
         IN  mine \o SubprocessCatalog(Tail(names), cl)

SPCallTool ==
    /\ CanStart("subprocess")
    /\ opCount' = opCount + 1
    /\ \E t \in ToolNames :
        last' = [NoLast EXCEPT !.kind = "call_tool", !.tool = t,
                               !.value = FirstResult(mcp_clients, clients, t)]
    /\ UNCHANGED <<hist, variant, registered, clients, popen, orphans, op, connectResult, terminal,
                   usedAfterTerminal, doubleFree, processes, mcp_clients, servers,
                   available_tools>>

SPGetAvailableTools ==
    /\ CanStart("subprocess")
    /\ opCount' = opCount + 1
    /\ last' = [NoLast EXCEPT !.kind = "get_available_tools",
                              !.value = ListVal(SubprocessCatalog(mcp_clients, clients))]
    /\ UNCHANGED <<hist, variant, registered, clients, popen, orphans, op, connectResult, terminal,
                   usedAfterTerminal, doubleFree, processes, mcp_clients, servers,
                   available_tools>>

\* One entry of MCPSubprocessManager.get_server_status: "running" and
\* "mcp_connected" are both "the manager has a client for the name and the client
\* has a session"; "pid" is there when the manager holds a process for the name.
ServerStatus(s, names, cl, procs) ==
    [server |-> s,
     running |-> s \in Keys(names) /\ cl[s].session # "None",
     pid |-> procs[s] # "None"]

\* get_server_status() over the configured names; last.log keeps the state each
\* name's child process was in at the time of the call.
SPGetServerStatus ==
    /\ CanStart("subprocess")
    /\ opCount' = opCount + 1
    /\ last' = [NoLast EXCEPT
                  !.kind = "get_server_status",
                  !.value = ListVal([s \in 1..registered |->
                                        ServerStatus(s, mcp_clients, clients, processes)]),
                  !.log = [s \in 1..registered |-> popen[s]]]
    /\ UNCHANGED <<hist, variant, registered, clients, popen, orphans, op, connectResult, terminal,
                   usedAfterTerminal, doubleFree, processes, mcp_clients, servers,
                   available_tools>>

SubprocessNext ==
    \/ SPGetServerStatus
    \/ SPStartServer
    \/ SPStartAllServers
    \/ SPStopServer
    \/ SPStopAllServers
    \/ SPProcessExits
    \/ SPCallTool
    \/ SPGetAvailableTools

\* --------------------------------- the catalog-routed MCPServerManager
ConnectOutcomes == {"ok", "spawnraise", "initraise"}

RECURSIVE StartAll(_, _, _, _)
\* The loop of MCPServerManager.start_all_servers over the configured names
\* n..registered: a new MCPClient per name, kept in servers when connect succeeds.
StartAll(st, n, last_n, f) ==
    IF n > last_n THEN st
    ELSE LET r == MCPClientConnect(NewClient,
                                   IF f[n] = "spawnraise" THEN "raise" ELSE "ok",
                                   IF f[n] = "initraise" THEN "raise" ELSE "ok")
         IN  StartAll(IF r.ok
                      THEN [st EXCEPT !.servers = Put(@, n), !.clients[n] = r.client]
                      ELSE st,
                      n + 1, last_n, f)

RECURSIVE Discover(_, _, _)
\* The loop of MCPServerManager.discover_all_capabilities: every tool a client
\* lists, tagged with its server name; a client that raises is logged and skipped.
Discover(names, cl, g) ==
    IF names = <<>> THEN <<>>
    ELSE LET r == ClientListTools(cl[Head(names)], Head(names), g[Head(names)])
             mine == IF r.raised THEN <<>>
                     ELSE [i \in 1..Len(r.value.items) |->
                              [name |-> r.value.items[i], server |-> Head(names)]]
         IN  mine \o Discover(Tail(names), cl, g)

\* The catalogs and servers maps a caller assigns: up to two descriptors, each
\* tagged with a provider, and any set of providers with a connected client.
AssignedCatalogs ==
    LET entries == {[name |-> n, server |-> s] : n \in {"ta", "tb"}, s \in Servers}
    IN  {<<>>} \cup {<<e>> : e \in entries} \cup {<<e, f>> : e \in entries, f \in entries}

AssignedServers ==
    {srvs \in UNION {[1..n -> Servers] : n \in 0..NumServers} :
        \A i, j \in 1..Len(srvs) : i < j => srvs[i] < srvs[j]}

\* manager.available_tools = [...]; manager.servers = {...}: the fields are set
\* from outside on a new manager, the clients put into servers answer requests.
RAssignFields ==
    /\ variant = "routedcall" /\ op.kind = "idle" /\ opCount = 0
    /\ opCount' = opCount + 1
    /\ \E catalog \in AssignedCatalogs, srvs \in AssignedServers :
        /\ available_tools' = catalog
        /\ servers' = srvs
        /\ clients' = [s \in Servers |-> IF s \in Keys(srvs) THEN ReadyClient ELSE NewClient]
    /\ last' = [NoLast EXCEPT !.kind = "assign"]
    /\ UNCHANGED <<hist, variant, registered, popen, orphans, op, connectResult, terminal,
                   usedAfterTerminal, doubleFree, processes, mcp_clients>>

\* The first catalog entry with the requested name, 0 when there is none.
FindTool(catalog, t) ==
    IF \E i \in 1..Len(catalog) : catalog[i].name = t
    THEN CHOOSE i \in 1..Len(catalog) :
            catalog[i].name = t /\ \A j \in 1..(i - 1) : catalog[j].name # t
    ELSE 0

\* call_tool without the "not found" checks: self.servers[None] raises KeyError.
RoutedCallToolUnchecked(catalog, srvs, cl, t, out) ==
    LET i == FindTool(catalog, t)
    IN  IF i = 0 \/ (i # 0 /\ catalog[i].server \notin Keys(srvs))
        THEN [raised |-> TRUE, value |-> NoneVal, called |-> 0]
        ELSE [called |-> catalog[i].server]
             @@ ClientCallTool(cl[catalog[i].server], catalog[i].server, t, out)

\* call_tool taking the last catalog entry with the requested name (the loop
\* without its break).
RoutedCallToolLastMatch(catalog, srvs, cl, t, out) ==
    LET hits == {i \in 1..Len(catalog) : catalog[i].name = t}
        i == IF hits = {} THEN 0 ELSE CHOOSE k \in hits : \A h \in hits : h <= k
    IN  IF i = 0 THEN [raised |-> FALSE, value |-> NoneVal, called |-> 0]
        ELSE IF catalog[i].server \notin Keys(srvs)
        THEN [raised |-> FALSE, value |-> NoneVal, called |-> 0]
        ELSE [called |-> catalog[i].server]
             @@ ClientCallTool(cl[catalog[i].server], catalog[i].server, t, out)

\* MCPServerManager.call_tool: route by catalog; the client's call is awaited
\* outside any try, so what it raises leaves the manager. Variant "routed" is
\* the manager as the program drives it, "routedcall" the manager whose
\* available_tools and servers were assigned by its caller.
RoutedCallTool(catalog, srvs, cl, t, out) ==
    LET i == FindTool(catalog, t)
    IN  IF i = 0 THEN [raised |-> FALSE, value |-> NoneVal, called |-> 0]
        ELSE IF catalog[i].server \notin Keys(srvs)
        THEN [raised |-> FALSE, value |-> NoneVal, called |-> 0]
        ELSE [called |-> catalog[i].server]
             @@ ClientCallTool(cl[catalog[i].server], catalog[i].server, t, out)

RStartAllServers ==
    /\ CanStart("routed")
    /\ opCount' = opCount + 1
    /\ IF registered = 0
       THEN /\ last' = [NoLast EXCEPT !.kind = "start_all_servers"]
            /\ UNCHANGED <<clients, servers, available_tools>>
       ELSE \E f \in [1..registered -> ConnectOutcomes], g \in [Servers -> Outcomes] :
              LET st == StartAll([servers |-> servers, clients |-> clients], 1, registered, f)
              IN  /\ servers' = st.servers
                  /\ clients' = st.clients
                  /\ available_tools' = Discover(st.servers, st.clients, g)
                  /\ last' = [NoLast EXCEPT !.kind = "start_all_servers",
                                            !.value = IF Len(st.servers) > 0
                                                      THEN StrVal(<<"True">>) ELSE NoneVal,
                                            !.log = f]
    /\ UNCHANGED <<hist, variant, registered, popen, orphans, op, connectResult, terminal,
                   usedAfterTerminal, doubleFree, processes, mcp_clients>>

RDiscoverAllCapabilities ==
    /\ CanStart("routed")
    /\ opCount' = opCount + 1
    /\ \E g \in [Servers -> Outcomes] :
        /\ available_tools' = Discover(servers, clients, g)
        /\ last' = [NoLast EXCEPT !.kind = "discover_all_capabilities", !.log = g]
    /\ UNCHANGED <<hist, variant, registered, clients, popen, orphans, op, connectResult, terminal,
                   usedAfterTerminal, doubleFree, processes, mcp_clients, servers>>

RCallTool ==
    /\ variant \in {"routed", "routedcall"} /\ op.kind = "idle" /\ opCount < MaxOps
    /\ opCount' = opCount + 1
    /\ \E t \in ToolNames, out \in CallOutcomes :
        LET r == RoutedCallTool(available_tools, servers, clients, t, out)
        IN  last' = [NoLast EXCEPT !.kind = "call_tool", !.tool = t, !.value = r.value,
                                   !.raised = r.raised, !.server = r.called,
                                   !.log = <<out>>, !.sent = r.called # 0]
    /\ UNCHANGED <<hist, variant, registered, clients, popen, orphans, op, connectResult, terminal,
                   usedAfterTerminal, doubleFree, processes, mcp_clients, servers,
                   available_tools>>

\* stop_all_servers without "self.servers.clear()".
RStopAllServersKeepsServers ==
    /\ CanStart("routed")
    /\ opCount' = opCount + 1
    /\ \E acl \in Outcomes, term \in Outcomes :
        /\ doubleFree' = (doubleFree \/ \E s \in Keys(servers) :
                                            MCPClientDisconnect(clients[s], acl, term).twice)
        /\ last' = [NoLast EXCEPT !.kind = "stop_all_servers", !.value = ListVal(servers),
                                  !.log = <<acl, term>>]
    /\ clients' = [s \in Servers |-> IF s \in Keys(servers) THEN NewClient ELSE clients[s]]
    /\ available_tools' = <<>>
    /\ UNCHANGED <<hist, variant, registered, popen, orphans, op, connectResult, terminal,
                   usedAfterTerminal, processes, mcp_clients, servers>>

\* MCPServerManager.stop_all_servers: disconnect each client inside try/except,
\* then clear the maps. last.value keeps the names whose clients were disconnected,
\* last.log what aclose and terminate did.
RStopAllServers ==
    /\ CanStart("routed")
    /\ opCount' = opCount + 1
    /\ \E acl \in Outcomes, term \in Outcomes :
        /\ doubleFree' = (doubleFree \/ \E s \in Keys(servers) :
                                            MCPClientDisconnect(clients[s], acl, term).twice)
        /\ last' = [NoLast EXCEPT !.kind = "stop_all_servers", !.value = ListVal(servers),
                                  !.log = <<acl, term>>]
    /\ clients' = [s \in Servers |-> IF s \in Keys(servers) THEN NewClient ELSE clients[s]]
    /\ servers' = <<>>
    /\ available_tools' = <<>>
    /\ UNCHANGED <<hist, variant, registered, popen, orphans, op, connectResult, terminal,
                   usedAfterTerminal, processes, mcp_clients>>

RoutedNext ==
    \/ RAssignFields
    \/ RStartAllServers
    \/ RDiscoverAllCapabilities
    \/ RCallTool
    \/ RStopAllServers

\* ------------------------------------------------- the agent's directive parser
\* A reply is a sequence of characters; the two literals of the pattern are one
\* element each, "SP" is a space, "NL" a newline and "Q" a double quote.
WordChars == {"f", "o", "a", "b", "j", "1"}

IsSpace(ch) == ch \in {"SP", "NL"}

RECURSIVE SkipSpace(_, _)
\* \s* from position i: the first position at or after i that is not whitespace.
SkipSpace(str, i) ==
    IF i <= Len(str) /\ IsSpace(str[i]) THEN SkipSpace(str, i + 1) ELSE i

RECURSIVE SkipWord(_, _)
\* \w* from position i: the first position at or after i that is not a word character.
SkipWord(str, i) ==
    IF i <= Len(str) /\ str[i] \in WordChars THEN SkipWord(str, i + 1) ELSE i

RECURSIVE FindChar(_, _, _)
\* str.find(ch, i): the first position at or after i holding ch, Len(str) + 1 if none.
FindChar(str, i, ch) ==
    IF i > Len(str) THEN Len(str) + 1
    ELSE IF str[i] = ch THEN i ELSE FindChar(str, i + 1, ch)

NoMatch == [ok |-> FALSE, name |-> <<>>, params |-> <<>>, end |-> 0]

\* The pattern TOOL_CALL:\s*(\w+)\s*\nPARAMETERS:\s*(\{.*?\}) tried at position i.
\* \s*\n needs the whitespace after the name to end in a newline; the lazy .*?
\* under DOTALL ends the second group at the first "}" after the "{".
MatchAt(str, i) ==
    LET j == SkipSpace(str, i + 1)
        k == SkipWord(str, j)
        m == SkipSpace(str, k)
        n == SkipSpace(str, m + 1)
        e == FindChar(str, n + 1, "}")
    IN  IF /\ str[i] = "TOOL_CALL:"
           /\ k > j
           /\ m > k /\ str[m - 1] = "NL"
           /\ m <= Len(str) /\ str[m] = "PARAMETERS:"
           /\ n <= Len(str) /\ str[n] = "{"
           /\ e <= Len(str)
        THEN [ok |-> TRUE, name |-> SubSeq(str, j, k - 1), params |-> SubSeq(str, n, e),
              end |-> e + 1]
        ELSE NoMatch

RECURSIVE FindAll(_, _)
\* re.findall: the non-overlapping matches from position i on, left to right.
FindAll(str, i) ==
    IF i > Len(str) THEN <<>>
    ELSE LET r == MatchAt(str, i)
         IN  IF r.ok THEN <<[name |-> r.name, params |-> r.params]>> \o FindAll(str, r.end)
             ELSE FindAll(str, i + 1)

RECURSIVE StripRight(_)
StripRight(str) ==
    IF str # <<>> /\ IsSpace(str[Len(str)]) THEN StripRight(SubSeq(str, 1, Len(str) - 1))
    ELSE str

\* str.strip()
Strip(str) == StripRight(SubSeq(str, SkipSpace(str, 1), Len(str)))

RECURSIVE BraceEnd(_, _, _)
\* The brace-counting loop of _parse_tool_parameters from position i with the
\* given count: the position of the "}" that brings the count to zero, 0 if none.
BraceEnd(str, i, brace_count) ==
    IF i > Len(str) THEN 0
    ELSE IF str[i] = "{" THEN BraceEnd(str, i + 1, brace_count + 1)
    ELSE IF str[i] = "}"
         THEN IF brace_count - 1 = 0 THEN i ELSE BraceEnd(str, i + 1, brace_count - 1)
    ELSE BraceEnd(str, i + 1, brace_count)

\* json.loads on the subset of JSON the replies use: objects, strings without
\* escapes, and numbers made of the digit 1.
JFail == [ok |-> FALSE, pos |-> 0, val |-> [kind |-> "none"]]

RECURSIVE StringEnd(_, _)
\* The closing quote of a string whose first character is at i; 0 when the
\* input ends or a raw newline comes first.
StringEnd(str, i) ==
    IF i > Len(str) \/ str[i] = "NL" THEN 0
    ELSE IF str[i] = "Q" THEN i ELSE StringEnd(str, i + 1)

ParseString(str, i) ==
    IF i > Len(str) \/ str[i] # "Q" THEN JFail
    ELSE LET e == StringEnd(str, i + 1)
         IN  IF e = 0 THEN JFail
             ELSE [ok |-> TRUE, pos |-> e + 1,
                   val |-> [kind |-> "str", chars |-> SubSeq(str, i + 1, e - 1)]]

RECURSIVE SkipDigits(_, _)
SkipDigits(str, i) ==
    IF i <= Len(str) /\ str[i] = "1" THEN SkipDigits(str, i + 1) ELSE i

\* dict[key] = val: a repeated key keeps its place and takes the new value.
PutMember(members, key, val) ==
    IF \E x \in 1..Len(members) : members[x].key = key
    THEN [x \in 1..Len(members) |->
             IF members[x].key = key THEN [key |-> key, val |-> val] ELSE members[x]]
    ELSE Append(members, [key |-> key, val |-> val])

RECURSIVE ParseValue(_, _)
RECURSIVE ParseMembers(_, _, _)
\* A JSON value starting exactly at position i.
ParseValue(str, i) ==
    IF i > Len(str) THEN JFail
    ELSE IF str[i] = "{"
         THEN LET j == SkipSpace(str, i + 1)
              IN  IF j <= Len(str) /\ str[j] = "}"
                  THEN [ok |-> TRUE, pos |-> j + 1,
                        val |-> [kind |-> "obj", members |-> <<>>]]
                  ELSE ParseMembers(str, j, <<>>)
    ELSE IF str[i] = "Q" THEN ParseString(str, i)
    ELSE IF str[i] = "1"
         THEN [ok |-> TRUE, pos |-> SkipDigits(str, i),
               val |-> [kind |-> "num", digits |-> SubSeq(str, i, SkipDigits(str, i) - 1)]]
    ELSE JFail

\* The members of an object from the key at position i on, up to its "}".
ParseMembers(str, i, acc) ==
    LET key == ParseString(str, i)
        c == SkipSpace(str, key.pos)
        v == ParseValue(str, SkipSpace(str, c + 1))
        d == SkipSpace(str, v.pos)
        members == PutMember(acc, key.val.chars, v.val)
    IN  IF ~key.ok \/ c > Len(str) \/ str[c] # ":" THEN JFail
        ELSE IF ~v.ok \/ d > Len(str) THEN JFail
        ELSE IF str[d] = "}"
             THEN [ok |-> TRUE, pos |-> d + 1, val |-> [kind |-> "obj", members |-> members]]
        ELSE IF str[d] = "," THEN ParseMembers(str, SkipSpace(str, d + 1), members)
        ELSE JFail

JsonLoads(str) ==
    LET v == ParseValue(str, SkipSpace(str, 1))
    IN  IF v.ok /\ SkipSpace(str, v.pos) > Len(str) THEN [ok |-> TRUE, val |-> v.val]
        ELSE [ok |-> FALSE, val |-> [kind |-> "none"]]

\* IntelligentAgent._parse_tool_parameters; ok = FALSE stands for None.
ParseToolParameters(params_str) ==
    LET str == Strip(params_str)
        start_idx == FindChar(str, 1, "{")
        end_idx == BraceEnd(str, start_idx, 0)
    IN  IF start_idx > Len(str) \/ end_idx = 0 THEN [ok |-> FALSE, val |-> [kind |-> "none"]]
        ELSE JsonLoads(SubSeq(str, start_idx, end_idx))

\* The replies the model is given.
FooName == <<"f", "o", "o">>

NestedParams == <<"{", "Q", "a", "Q", ":", "SP", "{", "Q", "b", "Q", ":", "SP", "1", "}", "}">>

FlatParams == <<"{", "Q", "a", "Q", ":", "SP", "1", "}">>

EmptyParams == <<"{", "}">>

QuotedBraceParams == <<"{", "Q", "a", "Q", ":", "SP", "Q", "}", "Q", "}">>

InvalidParams == <<"{", "a", "}">>

OpenParams == <<"{", "Q", "a", "Q", ":", "SP", "1">>

ParamTexts ==
    {NestedParams, FlatParams, EmptyParams, QuotedBraceParams, InvalidParams, OpenParams}

Separators == {<<"NL">>, <<"SP", "NL">>, <<"SP">>, <<"NL", "SP">>}

TrailingJunk == <<"SP", "j", "j">>

Trailers == {<<>>, TrailingJunk, <<"SP", "}">>, <<"NL">>}

Directive(sep, params, trailer) ==
    <<"TOOL_CALL:", "SP">> \o FooName \o sep \o <<"PARAMETERS:", "SP">> \o params \o trailer

Directives == {Directive(sep, p, t) : sep \in Separators, p \in ParamTexts, t \in Trailers}

FollowUps == {Directive(<<"NL">>, p, <<>>) : p \in {NestedParams, FlatParams}}

Replies ==
    {<<>>, <<"j", "SP", "j">>}
        \cup Directives
        \cup {d \o <<"NL">> \o f : d \in Directives, f \in FollowUps}

\* The execution replies the model is given; "Tool '" is that literal text.
ExecutionReplies ==
    {<<"j", "SP", "j">>,
     <<"Tool '", "j">>,
     Directive(<<"NL">>, NestedParams, TrailingJunk),
     Directive(<<"NL">>, FlatParams, TrailingJunk),
     Directive(<<"NL">>, InvalidParams, <<>>),
     Directive(<<"NL">>, InvalidParams, <<>>) \o <<"NL">> \o Directive(<<"NL">>, FlatParams, <<>>),
     Directive(<<"NL">>, FlatParams, <<>>) \o <<"NL">> \o Directive(<<"NL">>, NestedParams, <<>>)}

\* The parameter texts the pattern can capture from the replies.
CapturedTexts ==
    UNION {{FindAll(r, 1)[i].params : i \in 1..Len(FindAll(r, 1))} :
              r \in Replies \cup ExecutionReplies}

\* _parse_tool_parameters, worked out once for each of these texts.
ParsedTexts == {<<text, ParseToolParameters(text)>> : text \in CapturedTexts}

\* params = self._parse_tool_parameters(params_str)
Parsed(params_str) == (CHOOSE pair \in ParsedTexts : pair[1] = params_str)[2]

\* "agent": _process_tool_calls is called directly with a reply; "request":
\* process_user_request is called.
AgentVariants == {"agent", "request"}

NoAgentRet == [set |-> FALSE, text |-> <<>>, results |-> <<>>]

\* return response, with the result lines appended when there are any
AgentReturn(results) == [set |-> TRUE, text |-> response, results |-> results]

\* The loop iteration without the line for parameters that did not parse.
ExecuteToolCallDropsUnparsed ==
    /\ variant \in AgentVariants /\ apc = "loop" /\ pending # <<>>
    /\ LET m == Head(pending)
           params == Parsed(m.params)
       IN  \E out \in {"text", "none", "raise"} :
            LET line == [tool |-> m.name,
                         kind |-> IF out = "text" THEN "result"
                                  ELSE IF out = "none" THEN "failed to execute"
                                  ELSE "execution failed"]
                results == IF params.ok THEN Append(tool_results, line) ELSE tool_results
            IN  /\ ~params.ok => out = "none"
                /\ mgr_calls' = IF params.ok
                                THEN Append(mgr_calls, [tool |-> m.name, params |-> params.val])
                                ELSE mgr_calls
                /\ tool_results' = results
                /\ pending' = Tail(pending)
                /\ agent_ret' = IF Tail(pending) = <<>> THEN AgentReturn(results)
                                ELSE agent_ret
                /\ apc' = IF Tail(pending) = <<>> THEN "returned" ELSE apc
    /\ UNCHANGED <<variant, response, catalogs, requestVars>>

\* The loop of _process_tool_calls leaving at the first directive that fails.
ExecuteToolCallStopsAtFailure ==
    /\ variant \in AgentVariants /\ apc = "loop" /\ pending # <<>>
    /\ LET m == Head(pending)
           params == Parsed(m.params)
       IN  \E out \in {"text", "none", "raise"} :
            LET line == [tool |-> m.name,
                         kind |-> IF ~params.ok THEN "could not be parsed"
                                  ELSE IF out = "text" THEN "result"
                                  ELSE IF out = "none" THEN "failed to execute"
                                  ELSE "execution failed"]
                results == Append(tool_results, line)
                rest == IF line.kind = "result" THEN Tail(pending) ELSE <<>>
            IN  /\ ~params.ok => out = "none"
                /\ mgr_calls' = IF params.ok
                                THEN Append(mgr_calls, [tool |-> m.name, params |-> params.val])
                                ELSE mgr_calls
                /\ tool_results' = results
                /\ pending' = rest
                /\ agent_ret' = IF rest = <<>> THEN AgentReturn(results) ELSE agent_ret
                /\ apc' = IF rest = <<>> THEN "returned" ELSE apc
    /\ UNCHANGED <<variant, response, catalogs, requestVars>>

\* One iteration of the loop over the matches: parse the parameters, call the
\* tool unless they did not parse, record the line; after the last match, return.
ExecuteToolCall ==
    /\ variant \in AgentVariants /\ apc = "loop" /\ pending # <<>>
    /\ LET m == Head(pending)
           params == Parsed(m.params)
       IN  \E out \in {"text", "none", "raise"} :
            LET line == [tool |-> m.name,
                         kind |-> IF ~params.ok THEN "could not be parsed"
                                  ELSE IF out = "text" THEN "result"
                                  ELSE IF out = "none" THEN "failed to execute"
                                  ELSE "execution failed"]
                results == Append(tool_results, line)
            IN  /\ ~params.ok => out = "none"
                /\ mgr_calls' = IF params.ok
                                THEN Append(mgr_calls, [tool |-> m.name, params |-> params.val])
                                ELSE mgr_calls
                /\ tool_results' = results
                /\ pending' = Tail(pending)
                /\ agent_ret' = IF Tail(pending) = <<>> THEN AgentReturn(results)
                                ELSE agent_ret
                /\ apc' = IF Tail(pending) = <<>> THEN "returned" ELSE apc
    /\ UNCHANGED <<variant, response, catalogs, requestVars>>

\* _process_tool_calls up to the loop: the catalog, then the pattern search.
ProcessToolCalls ==
    /\ variant \in AgentVariants /\ apc = "process"
    /\ \E available \in BOOLEAN :
        LET matches == IF available THEN FindAll(response, 1) ELSE <<>>
        IN  /\ pending' = matches
            /\ catalogs' = Append(catalogs, [what |-> "tools", available |-> available])
            /\ agent_ret' = IF matches = <<>> THEN AgentReturn(<<>>) ELSE agent_ret
            /\ apc' = IF matches = <<>> THEN "returned" ELSE "loop"
    /\ UNCHANGED <<variant, response, tool_results, mgr_calls, requestVars>>

\* mcp_manager.call_tool never returns (the on-demand manager awaits a provider
\* that does not answer): "result = await self.mcp_manager.call_tool(...)" has no
\* timeout, so the loop stays suspended in that call.
ToolCallNeverReturns ==
    /\ variant \in AgentVariants /\ apc = "loop" /\ pending # <<>>
    /\ LET m == Head(pending)
           params == Parsed(m.params)
       IN  /\ params.ok
           /\ mgr_calls' = Append(mgr_calls, [tool |-> m.name, params |-> params.val])
    /\ apc' = "suspended"
    /\ UNCHANGED <<variant, response, pending, tool_results, agent_ret, catalogs, requestVars>>

\* ------------------------------------------------ the agent's selection parsers
\* str.lower() on the letters the replies use.
Lower(ch) ==
    CASE ch = "A" -> "a" [] ch = "B" -> "b" [] ch = "D" -> "d" [] ch = "E" -> "e"
      [] ch = "L" -> "l" [] ch = "N" -> "n" [] ch = "O" -> "o" [] ch = "S" -> "s"
      [] ch = "T" -> "t" [] OTHER -> ch

LowerStr(str) == [i \in 1..Len(str) |-> Lower(str[i])]

\* sub in str
Contains(str, sub) ==
    \E i \in 1..(Len(str) - Len(sub) + 1) : SubSeq(str, i, i + Len(sub) - 1) = sub

RECURSIVE Split(_)
\* str.split(',')
Split(str) ==
    LET i == FindChar(str, 1, ",")
    IN  IF i > Len(str) THEN <<str>>
        ELSE <<SubSeq(str, 1, i - 1)>> \o Split(SubSeq(str, i + 1, Len(str)))

RECURSIVE StripNonEmpty(_)
\* [r.strip() for r in parts if r.strip()]
StripNonEmpty(parts) ==
    IF parts = <<>> THEN <<>>
    ELSE (IF Strip(Head(parts)) # <<>> THEN <<Strip(Head(parts))>> ELSE <<>>)
         \o StripNonEmpty(Tail(parts))

NoneWord == <<"n", "o", "n", "e">>

NoResourcesPhrase == <<"n", "o", "SP", "r", "e", "s", "o", "u", "r", "c", "e", "s">>

NoToolsPhrase == <<"n", "o", "SP", "t", "o", "o", "l", "s">>

\* IntelligentAgent._parse_resource_selection
ParseResourceSelection(reply) ==
    LET r == LowerStr(Strip(reply))
    IN  IF Contains(r, NoneWord) \/ Contains(r, NoResourcesPhrase) THEN <<>>
        ELSE StripNonEmpty(Split(r))

\* The tool parser with the whole reply compared to "none" and nothing else.
ParseToolSelectionExact(reply) ==
    LET r == LowerStr(Strip(reply))
    IN  IF r = NoneWord THEN <<>> ELSE StripNonEmpty(Split(r))

\* IntelligentAgent._parse_tool_selection
ParseToolSelection(reply) ==
    LET r == LowerStr(Strip(reply))
    IN  IF Contains(r, NoneWord) \/ Contains(r, NoToolsPhrase) THEN <<>>
        ELSE StripNonEmpty(Split(r))

\* The selection replies the model is given.
ReplyNone == <<"N", "o", "n", "e">>

ReplyNoToolsNeeded ==
    <<"N", "O", "SP", "T", "O", "O", "L", "S", "SP", "N", "E", "E", "D", "E", "D">>

ReplyTwoTools == <<"t", "o", "o", "l", "A", ",", "SP", "t", "o", "o", "l", "B">>

ReplyNoResources == <<"N", "o", "SP", "r", "e", "s", "o", "u", "r", "c", "e", "s">>

ReplyPadded ==
    <<"SP", "t", "o", "o", "l", "A", "SP", ",", ",", "SP", "t", "o", "o", "l", "B", ",", "NL">>

ReplyNonesuch == <<"n", "o", "n", "e", "s", "u", "c", "h", ",", "SP", "t", "o", "o", "l", "B">>

ReplyToolAndNoTools ==
    <<"t", "o", "o", "l", "A", ",", "SP", "n", "o", "SP", "t", "o", "o", "l", "s">>

SelectionReplies ==
    {ReplyNone, ReplyNoToolsNeeded, ReplyTwoTools, ReplyNoResources, ReplyPadded,
     ReplyNonesuch, ReplyToolAndNoTools}

\* ------------------------------------------------ the agent's request pipeline
\* What llm_client.generate_response does: a text, None (or ""), or an exception
\* (a mocked client; the real one returns None on every failure).
LLMOutcome(kind, reply) == [kind |-> kind, reply |-> reply]

SelectionOutcomes ==
    {LLMOutcome("raise", <<>>), LLMOutcome("none", <<>>)}
        \cup {LLMOutcome("reply", r) : r \in SelectionReplies}

ExecutionOutcomes ==
    {LLMOutcome("raise", <<>>), LLMOutcome("none", <<>>)}
        \cup {LLMOutcome("reply", r) : r \in ExecutionReplies}

FinalText == <<"final answer">>

FinalOutcomes ==
    {LLMOutcome("raise", <<>>), LLMOutcome("none", <<>>), LLMOutcome("reply", FinalText)}

UserQuery == <<"user query">>

\* str(e) of the exception raised in a phase.
ErrorText(phase) == <<"error in", phase>>

NoRequestRet ==
    [set |-> FALSE, kind |-> "-", text |-> <<>>, results |-> <<>>, error |-> <<>>]

\* The except clause of process_user_request:
\* "I encountered an error while processing your request: {str(e)}".
Apology(error) ==
    [set |-> TRUE, kind |-> "apology", text |-> <<>>, results |-> <<>>, error |-> error]

\* "I couldn't generate a response for your request."
NoResponseText ==
    [set |-> TRUE, kind |-> "no response", text |-> <<>>, results |-> <<>>, error |-> <<>>]

\* One entry of llm_calls.
LLMCall(phase, o, text, results) ==
    [phase |-> phase, out |-> o.kind, reply |-> o.reply, query |-> UserQuery,
     text |-> text, results |-> results, tools |-> <<>>]

\* determine_needed_resources with no response treated as an error.
DetermineNeededResourcesStrict(available, o) ==
    IF ~available THEN [asked |-> FALSE, raised |-> FALSE, needed |-> <<>>]
    ELSE IF o.kind \in {"raise", "none"} THEN [asked |-> TRUE, raised |-> TRUE, needed |-> <<>>]
    ELSE [asked |-> TRUE, raised |-> FALSE, needed |-> ParseResourceSelection(o.reply)]

\* determine_needed_resources: no model call when there are no resources; an
\* empty selection when the model gives no response.
DetermineNeededResources(available, o) ==
    IF ~available THEN [asked |-> FALSE, raised |-> FALSE, needed |-> <<>>]
    ELSE IF o.kind = "raise" THEN [asked |-> TRUE, raised |-> TRUE, needed |-> <<>>]
    ELSE IF o.kind = "none" THEN [asked |-> TRUE, raised |-> FALSE, needed |-> <<>>]
    ELSE [asked |-> TRUE, raised |-> FALSE, needed |-> ParseResourceSelection(o.reply)]

CatalogOutcomes == {"raise", "empty", "nonempty"}

\* determine_needed_tools asking the model also when the catalog is empty.
DetermineNeededToolsAlwaysAsks(catalog, o) ==
    IF catalog = "raise" THEN [asked |-> FALSE, raised |-> TRUE, needed |-> <<>>]
    ELSE IF o.kind = "raise" THEN [asked |-> TRUE, raised |-> TRUE, needed |-> <<>>]
    ELSE IF o.kind = "none" THEN [asked |-> TRUE, raised |-> FALSE, needed |-> <<>>]
    ELSE [asked |-> TRUE, raised |-> FALSE, needed |-> ParseToolSelection(o.reply)]

\* determine_needed_tools returning an empty selection without asking the model.
DetermineNeededToolsNeverAsks(catalog, o) ==
    IF catalog = "raise" THEN [asked |-> FALSE, raised |-> TRUE, needed |-> <<>>]
    ELSE [asked |-> FALSE, raised |-> FALSE, needed |-> <<>>]

\* determine_needed_tools: get_available_tools may raise; no model call when the
\* catalog is empty; an empty selection when the model gives no response.
DetermineNeededTools(catalog, o) ==
    IF catalog = "raise" THEN [asked |-> FALSE, raised |-> TRUE, needed |-> <<>>]
    ELSE IF catalog = "empty" THEN [asked |-> FALSE, raised |-> FALSE, needed |-> <<>>]
    ELSE IF o.kind = "raise" THEN [asked |-> TRUE, raised |-> TRUE, needed |-> <<>>]
    ELSE IF o.kind = "none" THEN [asked |-> TRUE, raised |-> FALSE, needed |-> <<>>]
    ELSE [asked |-> TRUE, raised |-> FALSE, needed |-> ParseToolSelection(o.reply)]

\* One entry of catalogs.
Seen(what, available) == [what |-> what, available |-> available]

\* The condition with the marker test only.
NeedsFinalResponseOnMarker(reply, processed) ==
    Contains(processed.text, <<"Tool '">>) \/ processed.results # <<>>

\* The condition of execute_with_context for the final model call:
\* "Tool '" in processed_response and processed_response != response.
NeedsFinalResponse(reply, processed) ==
    /\ Contains(processed.text, <<"Tool '">>) \/ processed.results # <<>>
    /\ processed.results # <<>>

\* The final call with its exception leaving process_user_request.
GenerateFinalResponseUnprotected(processed, o) ==
    IF o.kind = "raise"
    THEN [set |-> TRUE, kind |-> "raised", text |-> <<>>, results |-> <<>>,
          error |-> ErrorText("final")]
    ELSE IF o.kind = "none"
    THEN [set |-> TRUE, kind |-> "fallback", text |-> processed.text,
          results |-> processed.results, error |-> <<>>]
    ELSE [set |-> TRUE, kind |-> "final", text |-> o.reply, results |-> <<>>, error |-> <<>>]

\* _generate_final_response: the model's text, or the tool results when the model
\* gives no response; an exception goes up to process_user_request.
GenerateFinalResponse(processed, o) ==
    IF o.kind = "raise" THEN Apology(ErrorText("final"))
    ELSE IF o.kind = "none"
    THEN [set |-> TRUE, kind |-> "fallback", text |-> processed.text,
          results |-> processed.results, error |-> <<>>]
    ELSE [set |-> TRUE, kind |-> "final", text |-> o.reply, results |-> <<>>, error |-> <<>>]

\* process_user_request up to the end of determine_needed_resources.
ReqDetermineResources ==
    /\ variant = "request" /\ apc = "resources"
    /\ \E available \in BOOLEAN, o \in SelectionOutcomes :
        LET r == DetermineNeededResources(available, o)
        IN  /\ ~available => o.kind = "none"
            /\ catalogs' = Append(catalogs, Seen("resources", available))
            /\ llm_calls' = IF r.asked
                            THEN Append(llm_calls, LLMCall("resources", o, <<>>, <<>>))
                            ELSE llm_calls
            /\ needed_resources' = r.needed
            /\ request_ret' = IF r.raised THEN Apology(ErrorText("resources")) ELSE request_ret
            /\ apc' = IF r.raised THEN "done" ELSE "tools"
    /\ UNCHANGED <<variant, response, pending, tool_results, mgr_calls, agent_ret, needed_tools>>

\* determine_needed_tools.
ReqDetermineTools ==
    /\ variant = "request" /\ apc = "tools"
    /\ \E catalog \in CatalogOutcomes, o \in SelectionOutcomes :
        LET r == DetermineNeededTools(catalog, o)
        IN  /\ catalog # "nonempty" => o.kind = "none"
            /\ catalogs' = IF catalog = "raise" THEN catalogs
                           ELSE Append(catalogs, Seen("tools", catalog = "nonempty"))
            /\ llm_calls' = IF r.asked
                            THEN Append(llm_calls, LLMCall("tools", o, <<>>, <<>>))
                            ELSE llm_calls
            /\ needed_tools' = r.needed
            /\ request_ret' = IF r.raised THEN Apology(ErrorText("tools")) ELSE request_ret
            /\ apc' = IF r.raised THEN "done" ELSE "execute"
    /\ UNCHANGED <<variant, response, pending, tool_results, mgr_calls, agent_ret,
                   needed_resources>>

\* The names of the tools a non-empty catalog holds.
CatalogTools == << <<"t", "o", "o", "l", "A">>, <<"t", "o", "o", "l", "b">> >>

\* What get_available_tools returned, by outcome.
CatalogOf(catalog) == IF catalog = "nonempty" THEN CatalogTools ELSE <<>>

\* relevant_tools of execute_with_context: the catalog tools whose name is one
\* of needed_tools, in catalog order.
RelevantTools(available, needed) ==
    SelectSeq(available, LAMBDA name : name \in Keys(needed))

\* execute_with_context up to the call of _process_tool_calls.
ReqExecute ==
    /\ variant = "request" /\ apc = "execute"
    /\ \E catalog \in CatalogOutcomes, o \in ExecutionOutcomes :
        /\ catalog = "raise" => o.kind = "none"
        /\ catalogs' = IF catalog = "raise" THEN catalogs
                       ELSE Append(catalogs, Seen("tools", catalog = "nonempty"))
        /\ llm_calls' = IF catalog = "raise" THEN llm_calls
                        ELSE Append(llm_calls,
                                    [LLMCall("execution", o, <<>>, <<>>) EXCEPT
                                        !.tools = RelevantTools(CatalogOf(catalog),
                                                                needed_tools)])
        /\ IF catalog = "raise" \/ o.kind = "raise"
           THEN /\ request_ret' = Apology(ErrorText("execution"))
                /\ apc' = "done"
                /\ UNCHANGED response
           ELSE IF o.kind = "none"
           THEN /\ request_ret' = NoResponseText
                /\ apc' = "done"
                /\ UNCHANGED response
           ELSE /\ response' = o.reply
                /\ apc' = "process"
                /\ UNCHANGED request_ret
    /\ UNCHANGED <<variant, pending, tool_results, mgr_calls, agent_ret, needed_resources,
                   needed_tools>>

\* get_available_tools raises inside _process_tool_calls: nothing there catches
\* it, it goes up to process_user_request.
ProcessToolCallsRaises ==
    /\ variant = "request" /\ apc = "process"
    /\ request_ret' = Apology(ErrorText("directives"))
    /\ apc' = "done"
    /\ UNCHANGED <<variant, response, pending, tool_results, mgr_calls, agent_ret, catalogs,
                   llm_calls, needed_resources, needed_tools>>

\* execute_with_context after _process_tool_calls returned, and the return of
\* process_user_request.
ReqFinal ==
    /\ variant = "request" /\ apc = "returned"
    /\ IF NeedsFinalResponse(response, agent_ret)
       THEN \E o \in FinalOutcomes :
                /\ llm_calls' = Append(llm_calls,
                                       LLMCall("final", o, agent_ret.text, agent_ret.results))
                /\ request_ret' = GenerateFinalResponse(agent_ret, o)
       ELSE /\ request_ret' = [set |-> TRUE, kind |-> "processed", text |-> agent_ret.text,
                               results |-> agent_ret.results, error |-> <<>>]
            /\ UNCHANGED llm_calls
    /\ apc' = "done"
    /\ UNCHANGED <<variant, response, pending, tool_results, mgr_calls, agent_ret, catalogs,
                   needed_resources, needed_tools>>

AgentNext ==
    \/ ProcessToolCalls
    \/ ExecuteToolCall
    \/ ToolCallNeverReturns
    \/ ReqDetermineResources
    \/ ReqDetermineTools
    \/ ReqExecute
    \/ ProcessToolCallsRaises
    \/ ReqFinal
\* ------------------------------------- the thread-backed client's class body
\* MCPOnDemandClient of mcp_on_demand_client.py as its methods are written, for
\* a caller that holds an instance (variant "threadcall"; the import that
\* stands in the way is ImportOnDemandClient). One caller awaits call_tool and
\* shutdown one after the other; the executor has one worker thread.
\*   caller:  "idle" | "waiting" (in wait_for) | "shutting" (in shutdown) | "shut"
\*   running: "none" | "awaited" | "abandoned", the call the worker thread runs
\*   silent:  the provider of the running call never answers
\*   proc:    "none" | "alive", the provider process of the running call
\*   queued:  the awaited call has not been picked up by the worker yet
\*   ret:     what the last call_tool returned: "-" | "text" | "None"
\*   timeouts, calls: calls that ended by the timeout, calls made
NewExecutor ==
    [caller |-> "idle", running |-> "none", silent |-> FALSE, proc |-> "none",
     queued |-> FALSE, ret |-> "-", timeouts |-> 0, calls |-> 0]

\* call_tool up to wait_for: executor.submit hands the call to the worker thread
\* if it is free (the thread spawns the provider), and queues it otherwise.
TCallTool ==
    /\ variant = "threadcall" /\ executor.caller = "idle" /\ executor.calls < MaxOps
    /\ \E silent \in BOOLEAN :
        executor' = IF executor.running = "none"
                    THEN [executor EXCEPT !.caller = "waiting", !.running = "awaited",
                                          !.silent = silent, !.proc = "alive",
                                          !.calls = @ + 1]
                    ELSE [executor EXCEPT !.caller = "waiting", !.queued = TRUE,
                                          !.calls = @ + 1]
    /\ UNCHANGED variant

\* _run_mcp_tool_call returns in the worker thread: the provider answered (or
\* the call failed), the finally clause closed the exit stack, which ends the
\* process; a caller still in wait_for gets the result; the worker then picks
\* up the queued call, if any.
TWorkerReturns ==
    /\ variant = "threadcall" /\ executor.running # "none" /\ ~executor.silent
    /\ \E out \in {"text", "None"}, silent \in BOOLEAN :
        LET delivered == executor.running = "awaited"
            e1 == IF delivered
                  THEN [executor EXCEPT !.caller = "idle", !.ret = out]
                  ELSE executor
        IN  executor' = IF executor.queued
                        THEN [e1 EXCEPT !.running = "awaited", !.queued = FALSE,
                                        !.silent = silent, !.proc = "alive"]
                        ELSE [e1 EXCEPT !.running = "none", !.proc = "none",
                                        !.silent = FALSE]
    /\ UNCHANGED variant

\* asyncio.TimeoutError in call_tool: future.cancel() and "return None". cancel
\* removes a call that is still queued and has no effect on a call the worker
\* thread is running.
TTimeout ==
    /\ variant = "threadcall" /\ executor.caller = "waiting"
    /\ executor' = IF executor.queued
                   THEN [executor EXCEPT !.caller = "idle", !.queued = FALSE,
                                         !.ret = "None", !.timeouts = @ + 1]
                   ELSE [executor EXCEPT !.caller = "idle", !.running = "abandoned",
                                         !.ret = "None", !.timeouts = @ + 1]
    /\ UNCHANGED variant

\* shutdown(): self.executor.shutdown(wait=True) is entered.
TShutdown ==
    /\ variant = "threadcall" /\ executor.caller = "idle"
    /\ executor' = [executor EXCEPT !.caller = "shutting"]
    /\ UNCHANGED variant

\* shutdown(wait=True) returns once the worker thread has nothing left to run.
TShutdownReturns ==
    /\ variant = "threadcall" /\ executor.caller = "shutting"
    /\ executor.running = "none"
    /\ executor' = [executor EXCEPT !.caller = "shut"]
    /\ UNCHANGED variant

ThreadNext ==
    \/ TCallTool
    \/ TWorkerReturns
    \/ TTimeout
    \/ TShutdown
    \/ TShutdownReturns

\* ------------------------------------------- overlapping manager operations
\* Two coroutines of one event loop (asyncio.gather, or two chat sessions) run
\* MCPOnDemandManager.call_tool / get_available_tools on a manager with one
\* provider. Both work on the one MCPOnDemandClient in self.clients; control
\* changes hands at every await. A session, a stdio context and the process it
\* spawned are named after the coroutine that created them.
Tasks == {"A", "B"}

\*   pc:      where the coroutine stands
\*   session: "none" | "open" | "closed", the ClientSession it created
\*   proc:    "none" | "alive" | "ended", the provider process it spawned
\*   used:    whose session its request went to ("-" before, "none" if none)
\*   closer:  who called aclose on the session it created
NewTask(kind) ==
    [kind |-> kind, pc |-> "start", session |-> "none", proc |-> "none", used |-> "-",
     closer |-> "-"]

\* connect_to_server up to "await self._stdio_context.__aenter__()": the context
\* goes into the field, replacing what was there, and the process is spawned.
OvEnter(k) ==
    /\ variant = "overlap" /\ tasks[k].pc = "start"
    /\ field' = [field EXCEPT !.stdio = k]
    /\ tasks' = [tasks EXCEPT ![k].pc = "entered", ![k].proc = "alive"]
    /\ UNCHANGED variant

\* "self.session = ClientSession(...)" and "await self.session.initialize()".
OvInitialize(k) ==
    /\ variant = "overlap" /\ tasks[k].pc = "entered"
    /\ field' = [field EXCEPT !.session = k]
    /\ tasks' = [tasks EXCEPT ![k].pc = "use", ![k].session = "open"]
    /\ UNCHANGED variant

\* client.list_tools() / client.call_tool(): "if not self.session" returns at
\* once, otherwise the request is awaited on the session the field holds now.
OvRequest(k) ==
    /\ variant = "overlap" /\ tasks[k].pc = "use"
    /\ tasks' = [tasks EXCEPT ![k].pc = "dispose",
                              ![k].used = IF field.session = "-" THEN "none"
                                          ELSE field.session]
    /\ UNCHANGED <<variant, field>>

\* dispose up to "await self.session.aclose()": the session the field holds now
\* is closed.
OvClose(k) ==
    /\ variant = "overlap" /\ tasks[k].pc = "dispose"
    /\ IF field.session = "-"
       THEN tasks' = [tasks EXCEPT ![k].pc = "exit"]
       ELSE tasks' = [tasks EXCEPT ![k].pc = "closing",
                                   ![field.session].session = "closed",
                                   ![field.session].closer =
                                        IF @ = "-" THEN k ELSE @]
    /\ UNCHANGED <<variant, field>>

\* "self.session = None" after the aclose.
OvClearSession(k) ==
    /\ variant = "overlap" /\ tasks[k].pc = "closing"
    /\ field' = [field EXCEPT !.session = "-"]
    /\ tasks' = [tasks EXCEPT ![k].pc = "exit"]
    /\ UNCHANGED variant

\* dispose up to "await self._stdio_context.__aexit__(None, None, None)": the
\* context the field holds now is left, which ends its process; leaving a
\* context entered by another coroutine may raise instead (swallowed by the
\* except) and leave that process running.
OvExit(k) ==
    /\ variant = "overlap" /\ tasks[k].pc = "exit"
    /\ IF field.stdio = "-"
       THEN tasks' = [tasks EXCEPT ![k].pc = "done"]
       ELSE \E ended \in BOOLEAN :
                /\ field.stdio = k => ended
                /\ tasks' = [tasks EXCEPT ![k].pc = "exiting",
                                          ![field.stdio].proc = IF ended THEN "ended" ELSE @]
    /\ UNCHANGED <<variant, field>>

\* "self._stdio_context = None" after the __aexit__, and the return of the
\* manager's operation.
OvClearContext(k) ==
    /\ variant = "overlap" /\ tasks[k].pc = "exiting"
    /\ field' = [field EXCEPT !.stdio = "-"]
    /\ tasks' = [tasks EXCEPT ![k].pc = "done"]
    /\ UNCHANGED variant

OverlapNext ==
    \E k \in Tasks :
        \/ OvEnter(k)
        \/ OvInitialize(k)
        \/ OvRequest(k)
        \/ OvClose(k)
        \/ OvClearSession(k)
        \/ OvExit(k)
        \/ OvClearContext(k)

\* ------------------------------------------------------ the specification
Init ==
    /\ variant \in {"ondemand", "odclient", "mcpclient", "subprocess", "routed", "agent",
                    "request", "threadclient", "web", "routedcall", "overlap",
                    "threadcall", "conversation"}
    /\ registered \in (IF variant \in AgentVariants \cup {"threadclient", "web", "routedcall",
                                                            "overlap", "threadcall", "conversation"}
                       THEN {0}
                       ELSE 0..NumServers)
    /\ clients = [s \in Servers |-> NewClient]
    /\ popen = [s \in Servers |-> "none"]
    /\ orphans = 0
    /\ op = IdleOp
    /\ last = NoLast
    /\ opCount = 0
    /\ connectResult = [s \in Servers |-> "-"]
    /\ terminal = [s \in Servers |-> FALSE]
    /\ usedAfterTerminal = FALSE
    /\ doubleFree = FALSE
    /\ hist = <<>>
    /\ processes = [s \in Servers |-> "None"]
    /\ mcp_clients = <<>>
    /\ servers = <<>>
    /\ available_tools = <<>>
    /\ response \in (IF variant = "agent" THEN Replies ELSE {<<>>})
    /\ pending = <<>>
    /\ tool_results = <<>>
    /\ mgr_calls = <<>>
    /\ agent_ret = NoAgentRet
    /\ apc = (IF variant = "agent" THEN "process"
              ELSE IF variant = "request" THEN "resources" ELSE "idle")
    /\ llm_calls = <<>>
    /\ catalogs = <<>>
    /\ needed_resources = <<>>
    /\ needed_tools = <<>>
    /\ request_ret = NoRequestRet
    /\ debug_logs = <<>>
    /\ debug_events = <<>>
    /\ field = [session |-> "-", stdio |-> "-"]
    /\ executor = NewExecutor
    /\ messages = <<>>
    /\ history = [called |-> FALSE, asked |-> [none |-> TRUE, n |-> 0], before |-> <<>>, after |-> <<>>, value |-> <<>>]
    /\ tasks \in [Tasks -> {NewTask(kind) : kind \in (IF variant = "overlap"
                                                       THEN {"call_tool", "get_available_tools"}
                                                       ELSE {"call_tool"})}]

\* ------------------------------------------------------------- the web server
DebugCategories == {"llm", "mcp"}
DebugData == {"None", "d"}

\* lst[:n] of Python, for n >= 0.
FirstN(lst, n) ==
    IF n >= Len(lst) THEN lst ELSE SubSeq(lst, 1, n)

\* lst[-n:] of Python: the last n elements, the whole list when n = 0 or n >= len.
LastN(lst, n) ==
    IF n = 0 \/ n >= Len(lst) THEN lst ELSE SubSeq(lst, Len(lst) - n + 1, Len(lst))

\* The entry add_debug_log builds: the clock reading is the ordinal of the call,
\* and 'data or {}' turns a missing data into the empty dict.
LogEntry(n, category, data) ==
    [timestamp |-> n, category |-> category,
     data |-> IF data = "None" THEN "{}" ELSE data]

\* The list add_debug_log leaves in self.debug_logs: the entry appended, then the
\* list cut to its last max entries when it is longer than that.
Appended(logs, entry, max) ==
    LET longer == Append(logs, entry)
    IN  IF Len(longer) > max THEN LastN(longer, max) ELSE longer

\* WebServer.add_debug_log. The broadcast that follows does not touch the list
\* and its RuntimeError is swallowed.
AddDebugLog ==
    /\ variant = "web"
    /\ Len(debug_events) < MaxEvents
    /\ \E category \in DebugCategories, data \in DebugData :
          LET log_entry == LogEntry(Len(debug_events) + 1, category, data)
          IN  /\ debug_logs' = Appended(debug_logs, log_entry, max_debug_logs)
              /\ debug_events' = Append(debug_events, log_entry)
    /\ UNCHANGED variant

WebNext == AddDebugLog

\* ------------------------------------------------------ the conversation
MaxMessages == 3

Roles == {"user", "assistant"}
Contents == {"Hi", "Hello!"}

\* The Message add_message builds: the clock reading is the ordinal of the call,
\* and 'metadata or {}' is the empty dict for both add_user_message and
\* add_assistant_message without metadata.
NewMessage(role, content, n) ==
    [role |-> role, content |-> content, timestamp |-> n, metadata |-> "{}"]

\* The argument max_messages: None (the default) or an integer.
NoLimit == [none |-> TRUE, n |-> 0]
Limit(n) == [none |-> FALSE, n |-> n]

\* Conversation.get_conversation_history(max_messages): a copy of the list for
\* None, self.messages[-max_messages:] otherwise.
GetConversationHistory(msgs, max_messages) ==
    IF max_messages.none THEN msgs ELSE LastN(msgs, max_messages.n)

\* add_user_message / add_assistant_message.
CAddMessage ==
    /\ variant = "conversation"
    /\ Len(messages) < MaxMessages
    /\ \E role \in Roles, content \in Contents :
        messages' = Append(messages, NewMessage(role, content, Len(messages) + 1))
    /\ UNCHANGED <<variant, history>>

CGetConversationHistory ==
    /\ variant = "conversation"
    /\ \E n \in {NoLimit} \cup {Limit(i) : i \in 0..(MaxMessages + 1)} :
        history' = [called |-> TRUE, asked |-> n, before |-> messages, after |-> messages,
                    value |-> GetConversationHistory(messages, n)]
    /\ UNCHANGED <<variant, messages>>

ConversationNext ==
    \/ CAddMessage
    \/ CGetConversationHistory

ManagerNext ==
    OnDemandNext \/ ClientNext \/ SubprocessNext \/ RoutedNext \/ ImportOnDemandClient

Next ==
    \/ ManagerNext /\ UNCHANGED <<agentVars, webVars, overlapVars, threadVars,
                                  conversationVars>>
    \/ AgentNext /\ UNCHANGED <<managerVars, webVars, overlapVars, threadVars,
                                conversationVars>>
    \/ WebNext /\ UNCHANGED <<managerVars, agentVars, overlapVars, threadVars,
                              conversationVars>>
    \/ OverlapNext /\ UNCHANGED <<managerVars, agentVars, webVars, threadVars,
                                  conversationVars>>
    \/ ThreadNext /\ UNCHANGED <<managerVars, agentVars, webVars, overlapVars,
                                 conversationVars>>
    \/ ConversationNext /\ UNCHANGED <<managerVars, agentVars, webVars, overlapVars,
                                       threadVars>>

Spec == Init /\ [][Next]_vars

\* Every step that can be taken is eventually taken: the event loop keeps
\* running coroutines that are ready and timers that are due.
FairSpec == Spec /\ WF_vars(Next)

\* ------------------------------------------------------------- the claims
ManagerVariants == {"ondemand", "subprocess", "routed"}

\* The object {"a": {"b": 1}} as json.loads returns it.
NestedObject ==
    [kind |-> "obj",
     members |-> <<[key |-> <<"a">>,
                    val |-> [kind |-> "obj",
                             members |-> <<[key |-> <<"b">>,
                                            val |-> [kind |-> "num", digits |-> <<"1">>]]>>]]>>]

\* C1 (as claimed): with a non-empty catalog, the reply
\* 'TOOL_CALL: foo\nPARAMETERS: {"a": {"b": 1}} trailing junk' leads to exactly one
\* call_tool('foo', {"a": {"b": 1}}): the parameters are the minimal balanced-brace
\* object and the trailing text is ignored.
C1_NestedDirectiveCallsTool ==
    (/\ variant = "agent" /\ agent_ret.set /\ pending = <<>>
     /\ response = Directive(<<"NL">>, NestedParams, TrailingJunk)
     /\ tool_results # <<>>)
        => mgr_calls = <<[tool |-> FooName, params |-> NestedObject]>>

\* C2: on the on-demand manager, whenever no operation is in progress no client
\* holds a session, a stdio context or a live child process.
C2_IdleManagerHoldsNothing ==
    (variant = "ondemand" /\ op.kind = "idle") =>
        \A s \in Servers :
            /\ clients[s].session = "None"
            /\ clients[s].stdio = "None"
            /\ clients[s].proc # "alive"

\* C2 witness: a call_tool has finished in which a provider was connected and
\* answered the call.
C2_Witness ==
    /\ variant = "ondemand" /\ op.kind = "idle" /\ last.kind = "call_tool"
    /\ \E i \in 1..Len(last.log) : last.log[i].conn = "ok" /\ Truthy(last.log[i].client)

\* C3 (as claimed): call_tool returns the text of the first provider whose client
\* returned a non-empty text, and attempts no provider registered after it.
C3_FirstResultReturned ==
    (variant = "ondemand" /\ last.kind = "call_tool") =>
        \A p \in 1..Len(last.log) :
            (Truthy(last.log[p].client) /\ \A j \in 1..(p - 1) : ~Truthy(last.log[j].client))
                => (last.value = last.log[p].client /\ Len(last.log) = p)

RECURSIVE ExpectedCatalog(_)
\* The descriptors the providers of a log reported, each tagged with its provider.
ExpectedCatalog(log) ==
    IF log = <<>> THEN <<>>
    ELSE [i \in 1..Len(Head(log).provided) |->
             [name |-> Head(log).provided[i], server |-> Head(log).server]]
         \o ExpectedCatalog(Tail(log))

\* C4 (as claimed): get_available_tools returns the descriptors of all succeeding
\* providers, each tagged with its provider; failing providers contribute nothing.
C4_CatalogIsUnionOfSucceeding ==
    (variant = "ondemand" /\ last.kind = "get_available_tools") =>
        last.value.items = ExpectedCatalog(last.log)

C6_UnknownToolReturnsNone ==
    /\ [](((variant \in {"ondemand", "routed"}) /\ last.kind = "call_tool"
            /\ last.tool = "nonexistent_tool")
            => (last.value = NoneVal /\ ~last.raised))
    /\ [][(variant \in {"ondemand", "routed"} /\ last'.kind = "call_tool"
            /\ last'.tool = "nonexistent_tool" /\ last' # last)
            => (registered' = registered /\ servers' = servers
                /\ available_tools' = available_tools)]_vars

\* C6 witness: the routed manager, with servers started, was asked for the name.
C6_Witness ==
    /\ variant = "routed" /\ last.kind = "call_tool" /\ last.tool = "nonexistent_tool"
    /\ Len(servers) > 0

\* C7 (as claimed): after a successful connect/start, dispose/stop leaves no
\* live child process for that provider.
C7_StopLeavesNoLiveChild ==
    /\ (variant = "subprocess" /\ last.kind = "stop_server") => popen[last.server] # "alive"
    /\ (variant = "odclient" /\ last.kind = "dispose") => clients[1].proc # "alive"

\* C8 (as claimed): when connect has returned a failure, the process it spawned
\* is not alive.
C8_FailedConnectLeavesNoProcess ==
    variant \in {"ondemand", "odclient"} =>
        \A s \in Servers : connectResult[s] = "failed" => clients[s].proc # "alive"

\* C9: dispose/disconnect never raises, leaves the client with no session, no
\* stdio context and no process, releases nothing twice, and changes nothing
\* when the client is already disposed.
C9_DisposeTotalIdempotent ==
    /\ []((variant \in ClientVariants /\ last.kind = "dispose")
            => /\ ~last.raised
               /\ clients[1].session = "None"
               /\ clients[1].stdio = "None"
               /\ clients[1].server_process = "None"
               /\ clients[1].proc # "alive")
    /\ [](variant \in (ClientVariants \cup {"ondemand"}) => ~doubleFree)
    /\ [][(variant \in ClientVariants /\ last.kind = "dispose" /\ last'.kind = "dispose"
            /\ opCount' # opCount) => clients' = clients]_vars

\* C9 witness: a client was connected, disposed, and disposed again.
C9_Witness ==
    /\ variant = "odclient"
    /\ hist = <<"connect_ok", "dispose", "dispose">>

\* C10 (as claimed): no connect, list or call goes through a client that was
\* disposed or failed to connect.
C10_TerminalClientNeverReused ==
    variant = "ondemand" => ~usedAfterTerminal

\* C11 (as claimed): every tool call is bounded: the on-demand manager's call_tool
\* always comes back, and process_user_request always returns, also when a
\* provider never replies.
C11_ToolCallsAreBounded ==
    /\ (variant = "ondemand" /\ op.kind = "call_tool") ~> (op.kind = "idle")
    /\ (variant = "request") ~> request_ret.set

\* C12 (as claimed): a caller of the thread-backed client's call_tool gets the
\* provider's text or None, within the timeout, and never an exception.
C12_ThreadClientCallReturns ==
    (variant = "threadclient" /\ last.kind = "call_tool") => ~last.raised

\* C13 (as claimed): connect_to_server always returns, also when the provider
\* never answers the handshake.
C13_HandshakeIsBounded ==
    (variant = "odclient" /\ op.kind = "connect_to_server") ~> (op.kind = "idle")

\* The phases of the request in which a model call raised.
RaisedLLMCalls == {i \in 1..Len(llm_calls) : llm_calls[i].out = "raise"}

ReturnKinds == {"apology", "no response", "processed", "final", "fallback"}

C15_NothingAvailableOneCall ==
    (/\ variant = "request" /\ apc = "done" /\ request_ret.kind # "apology"
     /\ \A i \in 1..Len(catalogs) : ~catalogs[i].available) =>
        /\ Len(llm_calls) = 1 /\ llm_calls[1].phase = "execution"
        /\ mgr_calls = <<>>
        /\ llm_calls[1].out = "reply" =>
            /\ request_ret.kind = "processed"
            /\ request_ret.text = llm_calls[1].reply
            /\ request_ret.results = <<>>

\* C15 witness: nothing was available, the execution reply held a directive and
\* came back as it was.
C15_Witness ==
    /\ variant = "request" /\ apc = "done" /\ request_ret.kind = "processed"
    /\ Len(catalogs) = 4 /\ \A i \in 1..4 : ~catalogs[i].available
    /\ request_ret.text = Directive(<<"NL">>, FlatParams, TrailingJunk)

FinalCalls == {i \in 1..Len(llm_calls) : llm_calls[i].phase = "final"}

Parseable(matches) == {i \in 1..Len(matches) : ParseToolParameters(matches[i].params).ok}

ExpectedSelection(reply) ==
    LET r == LowerStr(Strip(reply))
    IN  IF r = NoneWord \/ Contains(r, NoResourcesPhrase) \/ Contains(r, NoToolsPhrase)
        THEN <<>>
        ELSE StripNonEmpty(Split(r))

\* The last model call, when it is a selection call of the given phase that got a reply.
SelectionReply(phase) ==
    /\ llm_calls # <<>>
    /\ llm_calls[Len(llm_calls)].phase = phase
    /\ llm_calls[Len(llm_calls)].out = "reply"

LastReply == llm_calls[Len(llm_calls)].reply

\* C18 (as claimed): both parsers map "None" and "NO TOOLS NEEDED" to [],
\* "toolA, toolB" to ["toola", "toolb"], and any other comma-separated reply to
\* its tokens, lower-cased and trimmed, in order, without the empty ones.
C18_SelectionTokens ==
    /\ SelectionReply("resources") => needed_resources = ExpectedSelection(LastReply)
    /\ SelectionReply("tools") => needed_tools = ExpectedSelection(LastReply)

Authoritative(reply, phrase) ==
    LowerStr(Strip(reply)) = NoneWord \/ Contains(LowerStr(Strip(reply)), phrase)

C20_NoResponseDefaults ==
    /\ [][(/\ variant = "request" /\ Len(llm_calls') = Len(llm_calls) + 1
            /\ llm_calls'[Len(llm_calls')].out = "none") =>
              LET c == llm_calls'[Len(llm_calls')]
              IN  /\ c.phase = "resources" =>
                      (needed_resources' = <<>> /\ apc' = "tools" /\ ~request_ret'.set)
                  /\ c.phase = "tools" =>
                      (needed_tools' = <<>> /\ apc' = "execute" /\ ~request_ret'.set)
                  /\ c.phase = "execution" =>
                      (request_ret' = NoResponseText /\ apc' = "done")]_vars
    /\ [](request_ret = NoResponseText => mgr_calls = <<>>)

\* C20 witness: the model gave no response in all three phases.
C20_Witness ==
    /\ variant = "request" /\ apc = "done" /\ Len(llm_calls) = 3
    /\ \A i \in 1..3 : llm_calls[i].out = "none"
    /\ request_ret = NoResponseText

\* What a Ready client gives its caller when the provider reports no tools, and
\* when a call produces no result.
EmptyListing == ClientListTools(ReadyClient, 1, "empty").value

NoResult == ClientCallTool(ReadyClient, 1, "ta", "raise").value

\* C21 (as claimed): list_tools and call_tool on a client that holds no session
\* end in a NotConnected outcome: an exception, or a value that differs from the
\* empty listing and from the no-result value a Ready client gives.
C21_NotConnectedIsDistinct ==
    (variant \in ClientVariants /\ clients[1].session = "None") =>
        /\ last.kind = "list_tools" => (last.raised \/ last.value # EmptyListing)
        /\ last.kind = "call_tool" => (last.raised \/ last.value # NoResult)

\* The descriptors in the catalog that carry the given name and provider.
Occurrences(catalog, name, server) ==
    {i \in 1..Len(catalog) : catalog[i] = [name |-> name, server |-> server]}

\* C22 (as claimed): after a fetch the manager-level catalog holds every
\* descriptor a provider reported in that fetch exactly once, tagged with the
\* provider, and nothing else, however many fetches came before.
C22_CatalogIsLatestFetch ==
    /\ (variant = "ondemand" /\ last.kind = "get_available_tools") =>
        /\ \A p \in 1..Len(last.log) : \A d \in 1..Len(last.log[p].provided) :
              Cardinality(Occurrences(last.value.items, last.log[p].provided[d],
                                      last.log[p].server)) = 1
        /\ \A i \in 1..Len(last.value.items) : \E p \in 1..Len(last.log) :
              /\ last.log[p].server = last.value.items[i].server
              /\ \E d \in 1..Len(last.log[p].provided) :
                    last.log[p].provided[d] = last.value.items[i].name
    /\ (variant = "routed" /\ last.kind = "discover_all_capabilities") =>
        /\ \A s \in Keys(servers) :
              (last.log[s] = "ok" /\ SessionUsable(clients[s])) =>
                  \A d \in 1..Len(ProviderTools(s)) :
                      Cardinality(Occurrences(available_tools, ProviderTools(s)[d], s)) = 1
        /\ \A i \in 1..Len(available_tools) :
              LET s == available_tools[i].server
              IN  /\ s \in Keys(servers) /\ last.log[s] = "ok" /\ SessionUsable(clients[s])
                  /\ \E d \in 1..Len(ProviderTools(s)) :
                        ProviderTools(s)[d] = available_tools[i].name

C24_StatusFollowsProcess ==
    (variant = "subprocess" /\ last.kind = "get_server_status") =>
        \A s \in 1..Len(last.value.items) :
            last.value.items[s].running => last.log[s] = "alive"

\* C25 (as claimed): every descriptor a catalog operation returns was reported by
\* its provider during that fetch; the subprocess client sends the provider no
\* list-tools request, so its manager's catalog is empty.
C25_NoFabricatedDescriptors ==
    /\ (variant = "ondemand" /\ last.kind = "get_available_tools") =>
        \A i \in 1..Len(last.value.items) : \E p \in 1..Len(last.log) :
            /\ last.log[p].server = last.value.items[i].server
            /\ \E d \in 1..Len(last.log[p].provided) :
                  last.log[p].provided[d] = last.value.items[i].name
    /\ (variant \in ClientVariants /\ last.kind = "list_tools") =>
        \A i \in 1..Len(last.value.items) :
            \E d \in 1..Len(ProviderTools(1)) : ProviderTools(1)[d] = last.value.items[i]
    /\ (variant = "subprocess" /\ last.kind = "get_available_tools") =>
        last.value.items = <<>>

\* C26 (as claimed): start_all_servers returns true exactly when one of the
\* configured providers connected in that call; afterwards the servers map holds
\* the providers whose connect succeeded and none of those whose connect failed;
\* with no configured provider it returns false and holds nothing.
C26_StartResultFollowsConnects ==
    (variant = "routed" /\ last.kind = "start_all_servers") =>
        IF registered = 0
        THEN ~Truthy(last.value) /\ servers = <<>>
        ELSE /\ Truthy(last.value) <=> \E s \in 1..registered : last.log[s] = "ok"
             /\ \A s \in 1..registered : last.log[s] = "ok" <=> s \in Keys(servers)

\* C27: the debug-event log never holds more than max_debug_logs entries, and it
\* holds exactly the most recent min(n, max_debug_logs) of the n events added so
\* far, oldest first.
C27_DebugLogIsCappedTail ==
    variant = "web" =>
        LET n == Len(debug_events)
            kept == IF n < max_debug_logs THEN n ELSE max_debug_logs
        IN  /\ Len(debug_logs) <= max_debug_logs
            /\ Len(debug_logs) = kept
            /\ \A i \in 1..kept : debug_logs[i] = debug_events[n - kept + i]

\* An event was added to a full log, and the oldest entry dropped out.
C27_Witness ==
    /\ variant = "web"
    /\ Len(debug_events) > max_debug_logs
    /\ Len(debug_logs) = max_debug_logs
    /\ debug_logs[1] # debug_events[1]

\* The tool names the model's tool-selection reply lists, compared without case.
NamedInSelection ==
    LET asked == {i \in 1..Len(llm_calls) :
                    llm_calls[i].phase = "tools" /\ llm_calls[i].out = "reply"}
    IN  UNION {Keys(StripNonEmpty(Split(LowerStr(Strip(llm_calls[i].reply))))) : i \in asked}

\* The catalog execute_with_context fetched: the third catalog of the request.
ExecutionCatalog ==
    IF Len(catalogs) >= 3 /\ catalogs[3].available THEN CatalogTools ELSE <<>>

\* C28: the execution prompt lists a catalog tool exactly when the model named
\* it in its tool-selection reply.
C28_PromptListsSelectedTools ==
    variant = "request" =>
        \A i \in 1..Len(llm_calls) :
            llm_calls[i].phase = "execution" =>
                \A name \in Keys(ExecutionCatalog) :
                    name \in Keys(llm_calls[i].tools)
                        <=> LowerStr(name) \in NamedInSelection

\* The directives of the reply that _process_tool_calls has gone through so far.
Processed == SubSeq(FindAll(response, 1), 1, Len(tool_results))

ResultKinds == {"result", "failed to execute", "execution failed", "could not be parsed"}

\* C29: the directives are taken in their order of appearance, each leaves one
\* result line of one of the four kinds, the calls on the manager follow the
\* same order, and the method returns only when every directive has its line.
C29_OneLinePerDirectiveInOrder ==
    (variant \in AgentVariants /\ apc \in {"loop", "returned"} /\ FindAll(response, 1) # <<>>
        /\ catalogs[Len(catalogs)].available) =>
        LET matches == FindAll(response, 1)
            called == SelectSeq(Processed, LAMBDA m : Parsed(m.params).ok)
        IN  /\ Len(tool_results) + Len(pending) = Len(matches)
            /\ pending = SubSeq(matches, Len(tool_results) + 1, Len(matches))
            /\ \A i \in 1..Len(tool_results) :
                    /\ tool_results[i].tool = matches[i].name
                    /\ tool_results[i].kind \in ResultKinds
            /\ mgr_calls = [j \in 1..Len(called) |->
                                [tool |-> called[j].name, params |-> Parsed(called[j].params).val]]
            /\ apc = "returned" =>
                    /\ Len(tool_results) = Len(matches)
                    /\ agent_ret = AgentReturn(tool_results)

\* C29 witness: the first of two directives failed in call_tool, the second
\* was still run and succeeded, and both lines were returned.
C29_Witness ==
    /\ variant = "agent" /\ apc = "returned"
    /\ Len(FindAll(response, 1)) = 2
    /\ Len(agent_ret.results) = 2
    /\ agent_ret.results[1].kind \in {"failed to execute", "execution failed"}
    /\ agent_ret.results[2].kind = "result"
    /\ Len(mgr_calls) = 2

\* The place of a model call, and of a position of the coroutine, in the request.
PhaseRank(phase) ==
    CASE phase \in {"resources"} -> 1
      [] phase \in {"tools"} -> 2
      [] phase \in {"execution", "execute"} -> 3
      [] phase \in {"process", "loop", "suspended", "returned", "final"} -> 4
      [] OTHER -> 5

\* The request came back with what execute_with_context returned.
ReturnedFromExecution == request_ret.set /\ request_ret.kind # "apology"

\* C30: the coroutine only moves forward through resource selection, tool
\* selection and execution, so no phase runs twice or out of order; a request
\* that returns execution's result has fetched the resources once and then the
\* tools for selection and for execution, with the selections of the earlier
\* phases unchanged; and with resources and tools available and no directive in
\* the execution reply the model is called exactly three times, once per
\* phase, and the reply of the third call is the text returned.
C30_PhasesInOrderOnce ==
    /\ [][variant = "request" /\ apc' # apc =>
            /\ PhaseRank(apc') > PhaseRank(apc) \/ PhaseRank(apc) = 4
            /\ PhaseRank(apc') >= PhaseRank(apc)
            /\ PhaseRank(apc) >= 2 => needed_resources' = needed_resources
            /\ PhaseRank(apc) >= 3 => needed_tools' = needed_tools]_vars
    /\ [](variant = "request" =>
            /\ \A i, j \in 1..Len(llm_calls) :
                    i < j => PhaseRank(llm_calls[i].phase) < PhaseRank(llm_calls[j].phase)
            /\ \A i \in 1..Len(llm_calls) : llm_calls[i].query = UserQuery
            /\ \A i \in 1..Len(catalogs) :
                    catalogs[i].what = IF i = 1 THEN "resources" ELSE "tools"
            /\ ReturnedFromExecution =>
                    /\ Len(catalogs) >= 3
                    /\ \E i \in 1..Len(llm_calls) : llm_calls[i].phase = "execution"
            /\ (ReturnedFromExecution /\ catalogs[1].available /\ catalogs[2].available
                    /\ (response = <<>> \/ FindAll(response, 1) = <<>>)) =>
                    /\ Len(llm_calls) = 3
                    /\ llm_calls[1].phase = "resources"
                    /\ llm_calls[2].phase = "tools"
                    /\ llm_calls[3].phase = "execution"
                    /\ request_ret.kind \in {"processed", "no response"}
                    /\ request_ret.kind = "processed" =>
                            request_ret.text = llm_calls[3].reply)

\* C30 witness: resources and tools were there, both selections got a reply,
\* the execution reply held no directive and came back as the answer after
\* three model calls.
C30_Witness ==
    /\ variant = "request" /\ apc = "done"
    /\ request_ret.kind = "processed"
    /\ Len(catalogs) = 4 /\ \A i \in 1..4 : catalogs[i].available
    /\ Len(llm_calls) = 3
    /\ \A i \in 1..3 : llm_calls[i].out = "reply"
    /\ needed_tools # <<>>
    /\ request_ret.text = llm_calls[3].reply

\* C31: list_tools and call_tool on a client without a session return [] and
\* None, send no request and leave the client as it was; connect on a client
\* without a server configuration returns false and leaves the client as it was.
C31_NotConnectedChangesNothing ==
    [][(variant \in ClientVariants /\ hist' # hist) =>
        /\ (clients[1].session = "None" /\ last'.kind = "list_tools") =>
                /\ last'.value = ListVal(<<>>) /\ ~last'.raised /\ ~last'.sent
                /\ clients' = clients /\ popen' = popen /\ orphans' = orphans
        /\ (clients[1].session = "None" /\ last'.kind = "call_tool") =>
                /\ last'.value = NoneVal /\ ~last'.raised /\ ~last'.sent
                /\ clients' = clients /\ popen' = popen /\ orphans' = orphans
        /\ (variant = "mcpclient" /\ registered = 0 /\ last'.kind = "connect") =>
                /\ ~Truthy(last'.value) /\ ~last'.raised
                /\ clients' = clients /\ popen' = popen /\ orphans' = orphans]_vars

\* C31 witness: a client without a server configuration refused to connect,
\* then answered list_tools and call_tool without a request and is still as
\* constructed.
C31_Witness ==
    /\ variant = "mcpclient" /\ registered = 0
    /\ hist = <<"connect_failed", "list_tools", "call_tool">>
    /\ clients[1] = NewClient
    /\ last.kind = "call_tool" /\ last.value = NoneVal /\ ~last.sent

\* The positions of the catalog entries that carry the requested name.
Matching == {i \in 1..Len(available_tools) : available_tools[i].name = last.tool}

\* C32: call_tool goes to one provider only, the one tagged on the first catalog
\* entry with the requested name, asks it for the requested tool and returns what
\* it answered; when that provider is not in the servers map, or no entry has
\* the name, it returns None and no provider is called.
C32_CallGoesToFirstMatch ==
    (variant \in {"routed", "routedcall"} /\ last.kind = "call_tool") =>
        IF Matching = {}
        THEN last.server = 0 /\ last.value = NoneVal /\ ~last.sent
        ELSE LET first == CHOOSE i \in Matching : \A j \in Matching : i <= j
                 target == available_tools[first].server
             IN  IF target \notin Keys(servers)
                 THEN last.server = 0 /\ last.value = NoneVal /\ ~last.sent
                 ELSE /\ last.server = target
                      /\ (last.log = <<"text">> /\ SessionUsable(clients[target])) =>
                              last.value = StrVal(ResultText(target, last.tool))

\* C32 witness: two entries carry the name, tagged with different providers,
\* both in the servers map, and the first one's provider answered.
C32_Witness ==
    /\ variant = "routedcall" /\ last.kind = "call_tool"
    /\ Cardinality(Matching) = 2
    /\ available_tools[1].server # available_tools[2].server
    /\ {available_tools[1].server, available_tools[2].server} \subseteq Keys(servers)
    /\ last.server = available_tools[1].server
    /\ last.value = StrVal(ResultText(last.server, last.tool))

\* C33 (as claimed): overlapping operations on one on-demand manager do not
\* interfere: a request goes to the session its own operation opened, a session
\* is closed by the operation that opened it, and once every operation has
\* returned no provider process that any of them spawned is still running.
C33_OverlappingOperationsAreIsolated ==
    variant = "overlap" =>
        /\ \A k \in Tasks : tasks[k].used \in {"-", k}
        /\ \A k \in Tasks : tasks[k].closer \in {"-", k}
        /\ (\A k \in Tasks : tasks[k].pc = "done") =>
                \A k \in Tasks : tasks[k].proc # "alive"

\* C34 (as claimed): for the persistent MCPClient, while connect has returned
\* true and disconnect has not been called, the session is Ready and the
\* provider process behind its streams is alive.
C34_ConnectedClientHasLiveTransport ==
    (variant = "mcpclient" /\ connectResult[1] = "ok") =>
        /\ clients[1].session = "Ready"
        /\ clients[1].proc = "alive"

\* C35 (as claimed): within a request, every call made on mcp_manager.call_tool
\* names a tool of the catalog that the tool-selection phase chose.
C35_CallsOnlySelectedTools ==
    variant = "request" =>
        \A i \in 1..Len(mgr_calls) :
            /\ mgr_calls[i].tool \in Keys(needed_tools)
            /\ mgr_calls[i].tool \in Keys(CatalogTools)

\* The names a selection reply lists: its comma-separated tokens, trimmed and
\* lower-cased, without the empty ones.
ListedNames(reply) == StripNonEmpty(Split(LowerStr(Strip(reply))))

\* The reply asks for nothing: one of its tokens is the word "none", or it holds
\* one of the two phrases.
AsksForNothing(reply) ==
    \/ NoneWord \in Keys(ListedNames(reply))
    \/ Contains(LowerStr(reply), NoResourcesPhrase)
    \/ Contains(LowerStr(reply), NoToolsPhrase)

\* C36 (as claimed): a selection reply that does not ask for nothing is parsed
\* as the list of its names, also when one of the names contains "none".
C36_NoneInsideANameIsNoShortCircuit ==
    variant = "request" =>
        \A i \in 1..Len(llm_calls) :
            (llm_calls[i].out = "reply" /\ ~AsksForNothing(llm_calls[i].reply)) =>
                /\ llm_calls[i].phase = "resources" =>
                        needed_resources = ListedNames(llm_calls[i].reply)
                /\ llm_calls[i].phase = "tools" =>
                        needed_tools = ListedNames(llm_calls[i].reply)

\* The replies whose one directive carries the object with a brace inside a
\* string value, written so that the pattern recognizes the directive.
QuotedBraceReplies ==
    {r \in {Directive(sep, QuotedBraceParams, tr) : sep \in Separators, tr \in Trailers} :
        FindAll(r, 1) # <<>>}

\* C37 (as claimed): a directive whose object has a brace inside a string value
\* is taken whole and handed to call_tool as that object; it is no parse failure.
C37_BraceInStringIsExtractedWhole ==
    (variant = "agent" /\ apc = "returned" /\ response \in QuotedBraceReplies
        /\ catalogs[Len(catalogs)].available) =>
        /\ Len(mgr_calls) = 1
        /\ mgr_calls[1] = [tool |-> FooName, params |-> JsonLoads(QuotedBraceParams).val]
        /\ agent_ret.results[1].kind # "could not be parsed"

\* C38 (as claimed): once a call on the thread-backed client has timed out, the
\* abandoned call holds nothing: its provider process is gone, a later call is
\* run at once instead of waiting behind it, and shutdown is never left
\* waiting for an abandoned call whose provider does not answer.
C38_AbandonedCallHoldsNothing ==
    (variant = "threadcall" /\ executor.timeouts > 0) =>
        /\ executor.running = "abandoned" => executor.proc = "none"
        /\ ~(executor.queued /\ executor.running = "abandoned")
        /\ ~(executor.caller = "shutting" /\ executor.running = "abandoned"
                /\ executor.silent)

\* C39 (as claimed): in the persistent subprocess manager every child process
\* the manager spawned is either still referenced in its processes map or has
\* been terminated; starting a name that is already running never overwrites
\* the reference to a live process.
C39_EveryChildReferencedOrTerminated ==
    variant = "subprocess" =>
        /\ orphans = 0
        /\ \A s \in Servers : popen[s] = "alive" => processes[s] = "Popen"

\* C40 (as claimed): get_conversation_history(max_messages = n) returns the
\* last min(n, count) messages in their original order for every n >= 0, none
\* for n = 0, and leaves the stored messages as they were; without a limit it
\* returns all the messages.
C40_HistoryIsLastNMessages ==
    (variant = "conversation" /\ history.called) =>
        LET count == Len(history.before)
            k == IF history.asked.none \/ history.asked.n >= count THEN count
                 ELSE history.asked.n
        IN  /\ history.after = history.before
            /\ history.value = SubSeq(history.before, count - k + 1, count)

====
